---- MODULE Spec2Model ----
(***************************************************************************)
(* Workflow runtime of orchestra: the workflow API (backend/api/           *)
(* workflows.py), the status manager (backend/services/                    *)
(* workflow_manager.py), the checkpoint manager (backend/services/         *)
(* checkpoint_manager.py) and the plan-review graph (backend/workflows/    *)
(* plan_review.py), for one workflow id.                                   *)
(*                                                                         *)
(* Every background task (execute_workflow, resume_workflow_execution) is  *)
(* a coroutine on one event loop: the code between two awaits is one step. *)
(* The graph engine (langgraph) keeps one persisted snapshot per thread    *)
(* id; every ainvoke works on its own copy of the state and writes the     *)
(* snapshot back after each node.                                          *)
(***************************************************************************)
EXTENDS Integers, Sequences, FiniteSets, TLC

\* ---------------------------------------------------------------- bounds
MaxResumes == 2      \* resume requests accepted or rejected in one behaviour
MaxInFlight == 2     \* background tasks alive at the same time
MaxFaults == 1       \* agent calls that end in a timeout or an error
MaxRounds == 4       \* checkpoints a patient user resolves one after another
MaxGets == 3         \* get_agent calls on the agent factory
MaxStops == 1        \* stop_all calls on the agent factory
MaxSubscribers == 3  \* websocket clients of the workflow
MaxRuns == 2         \* send_message calls of the CLI agents
MaxLines == 3        \* lines of a CLI agent's stdout
MaxSegments == 2     \* pieces (text, object, unclosed brace) on one line
MaxPolls == 1        \* observed save_checkpoint_created calls of get_workflow
MaxCallers == 3      \* mark_* calls made on the status manager
MaxAttempts == 4     \* planner calls made with the cached planning agent
MaxExtension == 2    \* largest timeout extension a user grants, in steps
MaxReviewRounds == 2 \* review rounds in a history handed to review_with_history
MaxChars == 4        \* characters of an arbitrary single-line output
MaxValueLen == 2     \* characters of a string value in a canonical object
MaxSalvageLen == 3   \* characters of the string in an unterminated record

\* ------------------------------------------------------- program constants
NumReviewers == 3    \* AgentFactory.get_review_agents: reviewer triple

Slots == 0..MaxResumes          \* slot 0: execute_workflow; slot k: k-th resume
Reviewers == 1..NumReviewers

VARIABLES
  active,        \* active_workflows[workflow_id]["status"], or "absent"
  wfRow,         \* workflows.status of the row, or "none" before the INSERT
  graph,         \* persisted engine snapshot: [next, vals, intr]
  checkpoints,   \* user_checkpoints rows, in insertion order
  executions,    \* agent_executions rows, in insertion order (id = index)
  tasks,         \* background tasks, by slot
  resumes,       \* number of resume requests received
  faults,        \* number of agent calls that failed
  emitted,       \* payloads handed to interrupt() that suspended the graph
  restarted,     \* the process was restarted (in-memory tables lost)
  log,           \* actions of the resolutions a patient user has sent so far
  cache,         \* AgentFactory._agents: set of [key, inst]
  instances,     \* agent objects ever constructed, in order (id = index)
  gets,          \* get_agent calls, by call number
  useMocks,      \* settings.use_mock_agents
  epoch,         \* number of stop_all calls so far
  conns,         \* active_connections[workflow_id]: [present, gen, list]
  subs,          \* websocket_endpoint handler of each client
  broken,        \* clients whose socket fails on send
  pub,           \* the broadcast_to_workflow call in progress
  runs,          \* CLIAgent.send_message calls, by call number
  files,         \* temp file name -> the call that created it, 0 if none
  procs,         \* subprocesses that are alive (spawned, not reaped)
  stdout,        \* the stdout text handed to parse_response, as lines
  extracted,     \* what _extract_json_from_output returned for it
  agentType,     \* the class of the agent that parses: claude or gemini
  response,      \* what parse_response returned or raised
  polls,         \* history: what save_checkpoint_created found for an id
  resolution,    \* a resolution handed to both writers of user_checkpoints
  apiRows,       \* the row as save_checkpoint_resolution leaves it
  managerRows,   \* the row as _save_checkpoint_resolution leaves it
  entry,         \* status manager: active_workflows[id]["status"], or "absent"
  dbStatus,      \* status manager: workflows.status as its UPDATEs leave it
  notified,      \* status manager: notification types broadcast, in order
  calls,         \* status manager: the mark_* calls, by caller
  walk,          \* the workflow followed without its counters: [node, vals, ...]
  agentTimeout,  \* cached planning agent: seconds its timeout exceeds the configured one
  retry,         \* planner node and its retry flags: [pc, retry_agent, ...]
  history,       \* review_with_history: the messages it is given
  reviewer,      \* review_with_history: agent_index
  roles,         \* review_with_history: the role it wrote over each message
  text,          \* single-line stdout handed to _extract_json_from_output, as characters
  canon,         \* the canonical JSON object text the output wraps, << >> if none
  json_found,    \* what _extract_json_from_output returned for text
  field,         \* _fallback_extract_content: the field of the unterminated record
  value,         \* the string whose JSON-escaped text the record was cut off after
  salvaged       \* what _fallback_extract_content returned

\* The workflow runtime's variables, and those of the other components.
wfVars == <<active, wfRow, graph, checkpoints, executions, tasks, resumes,
            faults, emitted, restarted>>

factoryVars == <<cache, instances, gets, useMocks, epoch>>

pubVars == <<conns, subs, broken, pub>>

runnerVars == <<runs, files, procs>>

parserVars == <<stdout, extracted, agentType, response>>

writerVars == <<resolution, apiRows, managerRows>>

managerVars == <<entry, dbStatus, notified, calls>>

walkVars == <<walk>>

retryVars == <<agentTimeout, retry>>

labelVars == <<history, reviewer, roles>>

scanVars == <<text, canon, json_found>>

salvageVars == <<field, value, salvaged>>

others == <<log, polls, factoryVars, pubVars, runnerVars, parserVars, writerVars, managerVars, walkVars, retryVars, labelVars, scanVars, salvageVars>>

notFactory == <<wfVars, log, polls, pubVars, runnerVars, parserVars, writerVars, managerVars, walkVars, retryVars, labelVars, scanVars, salvageVars>>

notPubSub == <<wfVars, log, polls, factoryVars, runnerVars, parserVars, writerVars, managerVars, walkVars, retryVars, labelVars, scanVars, salvageVars>>

notRunner == <<wfVars, log, polls, factoryVars, pubVars, parserVars, writerVars, managerVars, walkVars, retryVars, labelVars, scanVars, salvageVars>>

notParser == <<wfVars, log, polls, factoryVars, pubVars, runnerVars, writerVars, managerVars, walkVars, retryVars, labelVars, scanVars, salvageVars>>

notWriters == <<wfVars, log, polls, factoryVars, pubVars, runnerVars, parserVars, managerVars, walkVars, retryVars, labelVars, scanVars, salvageVars>>

notManager == <<wfVars, log, polls, factoryVars, pubVars, runnerVars, parserVars, writerVars, walkVars, retryVars, labelVars, scanVars, salvageVars>>

notWalk == <<wfVars, log, polls, factoryVars, pubVars, runnerVars, parserVars, writerVars, managerVars, retryVars, labelVars, scanVars, salvageVars>>

notRetry == <<wfVars, log, polls, factoryVars, pubVars, runnerVars, parserVars, writerVars, managerVars, walkVars, labelVars, scanVars, salvageVars>>

notLabels == <<wfVars, log, polls, factoryVars, pubVars, runnerVars, parserVars, writerVars, managerVars, walkVars, retryVars, scanVars, salvageVars>>

notScan == <<wfVars, log, polls, factoryVars, pubVars, runnerVars, parserVars, writerVars, managerVars, walkVars, retryVars, labelVars, salvageVars>>

notSalvage == <<wfVars, log, polls, factoryVars, pubVars, runnerVars, parserVars, writerVars, managerVars, walkVars, retryVars, labelVars, scanVars>>

vars == <<wfVars, others>>

\* ------------------------------------------------------------ status graph
\* StatusTransition enum and _build_transition_map.
ValidTransitions ==
  { <<"pending", "running">>,
    <<"running", "awaiting_checkpoint">>, <<"running", "completed">>,
    <<"running", "failed">>, <<"running", "cancelled">>,
    <<"awaiting_checkpoint", "running">>, <<"awaiting_checkpoint", "completed">>,
    <<"awaiting_checkpoint", "failed">>, <<"awaiting_checkpoint", "cancelled">> }

\* validate_transition(workflow_id, to_status) against the in-memory entry.
validate_transition(cur, to) ==
  IF cur = "absent" THEN FALSE
  ELSE <<cur, to>> \in ValidTransitions

\* The `validate and not self.validate_transition(...)` guard of mark_running,
\* mark_awaiting_checkpoint and mark_completed: TRUE when the call is rejected.
\* Every caller in api/workflows.py passes validate=False.
CallerValidate == FALSE

TransitionRejected(cur, to) == CallerValidate /\ ~validate_transition(cur, to)

\* ------------------------------------------------------------ resolutions
Actions ==
  { "send_to_reviewers", "edit_and_continue", "cancel", "request_revision",
    "edit_prompt_and_revise", "approve_plan", "send_to_planner_for_revision" }

\* A resolution {action, edited_content?, user_notes?}; 0 stands for an absent
\* key, 1 for a text supplied by the user.
Resolutions ==
  { [action |-> a, edited |-> 0, notes |-> 0] : a \in Actions } \cup
  { [action |-> a, edited |-> 1, notes |-> 1] :
      a \in {"send_to_reviewers", "request_revision"} }

NoResolution == [action |-> "none", edited |-> 0, notes |-> 0]

\* status_map of save_checkpoint_resolution (api/workflows.py).
ApiStatusMap(a) ==
  CASE a \in { "send_to_reviewers", "send_to_planner_for_revision",
               "request_revision", "approve_plan", "approve" } -> "approved"
    [] a \in { "edit_and_continue", "edit_prompt_and_revise",
               "edit_full_prompt" } -> "edited"
    [] a = "cancel" -> "rejected"
    [] OTHER -> "approved"

\* status_map of CheckpointManager._save_checkpoint_resolution.
ManagerStatusMap(a) ==
  CASE a \in { "send_to_reviewers", "send_to_planner_for_revision",
               "request_revision", "approve_plan", "approve" } -> "approved"
    [] a \in { "edit_and_continue", "edit_prompt_and_revise" } -> "edited"
    [] a = "cancel" -> "rejected"
    [] OTHER -> "approved"

\* ------------------------------------------------------------ graph state
\* PlanReviewState, with texts abstracted: plan counts the planner outputs,
\* user_edits is 0 (unset), 1 (the plan as produced) or 2 (text edited by the
\* user), a custom prompt is 0 (unset) or the number of the plan its text was
\* written for, review_feedback is the set of reviewer slots whose feedback is
\* held, messages lists what each message is: the initial user prompt, a note
\* a checkpoint appended for the user, or the name of the agent whose output
\* it is (planning_agent, review_agent_0 .. review_agent_2).
InitialState ==
  [ checkpoint_number |-> 0, iteration_count |-> 0, status |-> "starting",
    next_step |-> "none", retry_agent |-> FALSE, current_plan |-> 0,
    user_edits |-> 0, reviewer_prompt |-> 0, planner_prompt |-> 0,
    review_feedback |-> {}, messages |-> <<"initial_prompt">> ]

NoInterrupt == [id |-> 0, number |-> 0, step |-> "none"]

EmptyGraph == [next |-> "none", vals |-> InitialState, intr |-> NoInterrupt]

Idle ==
  [ pc |-> "idle", res |-> NoResolution, node |-> "none", vals |-> InitialState,
    resume |-> FALSE, forIntr |-> 0, calls |-> {}, err |-> "none" ]

\* ------------------------------------------------------------ components at rest
GetCalls == 1..MaxGets

IdleGet ==
  [ pc |-> "idle", role |-> << >>, name |-> << >>, ws |-> "none", inst |-> 0,
    from |-> 0, till |-> 0 ]

FactoryIdle ==
  /\ cache = {}
  /\ instances = << >>
  /\ gets = [c \in GetCalls |-> IdleGet]
  /\ epoch = 0

Subscribers == 1..MaxSubscribers

\* No broadcast in progress.  gen tells list objects apart: the key of
\* active_connections is deleted with its empty list and re-created with a new
\* one.
IdlePub ==
  [ pc |-> "idle", gen |-> 0, idx |-> 0, cur |-> 0, dead |-> << >>, got |-> {},
    at |-> {}, result |-> "none" ]

PubSubIdle ==
  /\ conns = [present |-> FALSE, gen |-> 0, list |-> << >>]
  /\ subs = [c \in Subscribers |-> "none"]
  /\ broken = {}
  /\ pub = IdlePub

RunCalls == 1..MaxRuns

\* Names tempfile.NamedTemporaryFile can give: any name no existing file has.
FileNames == 1..MaxRuns

IdleRun == [pc |-> "idle", file |-> 0, proc |-> 0, out |-> "none"]

RunnerIdle ==
  /\ runs = [c \in RunCalls |-> IdleRun]
  /\ files = [f \in FileNames |-> 0]
  /\ procs = {}

NotExtracted == [kind |-> "pending", line |-> 0, type |-> "none"]

NoResponse == [kind |-> "pending", of |-> "none"]

ParserIdle ==
  /\ stdout = << >>
  /\ extracted = NotExtracted
  /\ agentType = "claude"
  /\ response = NoResponse

\* A user_checkpoints row as both INSERT statements write it.
PendingRow ==
  [id |-> 1, number |-> 1, step |-> "plan_ready_for_review", status |-> "pending",
   edited |-> 0, notes |-> 0, susp |-> 1]

WritersIdle ==
  /\ resolution = NoResolution
  /\ apiRows = <<PendingRow>>
  /\ managerRows = <<PendingRow>>

Callers == 1..MaxCallers

IdleCall ==
  [pc |-> "idle", to |-> "none", validate |-> FALSE, from |-> "none", err |-> "none"]

\* The status manager right after create_workflow registered the workflow.
ManagerIdle ==
  /\ entry = "running"
  /\ dbStatus = "running"
  /\ notified = << >>
  /\ calls = [c \in Callers |-> IdleCall]

\* The workflow right after create_workflow started execute_workflow.
WalkIdle ==
  walk = [ node |-> "planning_agent", vals |-> InitialState, pc |-> "invoke",
           res |-> NoResolution, entry |-> "running", row |-> "running",
           pending |-> FALSE, answered |-> FALSE ]

\* The planning agent as get_agent created it, its timeout the configured
\* planning timeout, and a workflow about to enter the planner node.
RetryIdle ==
  /\ agentTimeout = 0
  /\ retry = [pc |-> "node", retry_agent |-> FALSE, timeout_extension |-> 0,
              attempts |-> 0]

LabelsIdle ==
  /\ history = <<"initial_prompt">>
  /\ reviewer = 1
  /\ roles = << >>

NotScanned == <<"not scanned">>

ScanIdle ==
  /\ text = << >>
  /\ canon = << >>
  /\ json_found = NotScanned

NotSalvaged == <<"not salvaged">>

SalvageIdle ==
  /\ field = "none"
  /\ value = << >>
  /\ salvaged = NotSalvaged

WorkflowInit ==
  /\ active = "absent"
  /\ wfRow = "none"
  /\ graph = EmptyGraph
  /\ checkpoints = << >>
  /\ executions = << >>
  /\ tasks = [s \in Slots |-> Idle]
  /\ resumes = 0
  /\ faults = 0
  /\ emitted = << >>
  /\ restarted = FALSE
  /\ log = << >>
  /\ polls = {}

Init ==
  /\ WorkflowInit
  /\ FactoryIdle /\ useMocks = FALSE
  /\ PubSubIdle
  /\ RunnerIdle
  /\ ParserIdle
  /\ WritersIdle
  /\ ManagerIdle
  /\ WalkIdle
  /\ RetryIdle
  /\ LabelsIdle
  /\ ScanIdle
  /\ SalvageIdle

\* create_workflow: INSERT the row as running, register the active entry and
\* start execute_workflow, which enters the graph at planning_agent.
Create ==
  /\ wfRow = "none"
  /\ wfRow' = "running"
  /\ active' = "running"
  /\ graph' = [next |-> "planning_agent", vals |-> InitialState, intr |-> NoInterrupt]
  /\ tasks' = [tasks EXCEPT ![0] =
       [Idle EXCEPT !.pc = "run", !.node = "planning_agent"]]
  /\ UNCHANGED <<checkpoints, executions, resumes, faults, emitted, restarted>>
  /\ UNCHANGED others


\* ------------------------------------------------------------ graph edges
\* Conditional edge of planning_agent (_build_graph).
PlannerEdge(v) ==
  IF v.retry_agent THEN "planning_agent"
  ELSE IF v.next_step = "end" THEN "END"
  ELSE "plan_checkpoint"

\* Conditional edge of plan_checkpoint: state.get("next_step", "review_agents").
PlanCheckpointEdge(v) ==
  CASE v.next_step = "edit_reviewer_prompt" -> "edit_reviewer_prompt_checkpoint"
    [] v.next_step = "end" -> "END"
    [] OTHER -> "review_agents"

\* The same edge without its test of next_step.
ReviewAgentsEdgeNoEnd(v) ==
  IF v.retry_agent THEN "review_agents"
  ELSE "review_checkpoint"

\* Conditional edge of review_agents.
ReviewAgentsEdge(v) ==
  IF v.retry_agent THEN "review_agents"
  ELSE IF v.next_step = "end" THEN "END"
  ELSE "review_checkpoint"

\* The same edge with its first two targets exchanged.
ReviewCheckpointEdgeSwapped(v) ==
  CASE v.next_step = "edit_planner_prompt" -> "planning_agent"
    [] v.next_step = "planning_agent" -> "edit_planner_prompt_checkpoint"
    [] OTHER -> "END"

\* Conditional edge of review_checkpoint: state.get("next_step", "end").
ReviewCheckpointEdge(v) ==
  CASE v.next_step = "edit_planner_prompt" -> "edit_planner_prompt_checkpoint"
    [] v.next_step = "planning_agent" -> "planning_agent"
    [] OTHER -> "END"

\* The unconditional edges out of the two edit-prompt checkpoints.
EditReviewerPromptEdge(v) == "review_agents"

EditPlannerPromptEdge(v) == "planning_agent"

NextNode(node, v) ==
  CASE node = "planning_agent" -> PlannerEdge(v)
    [] node = "plan_checkpoint" -> PlanCheckpointEdge(v)
    [] node = "edit_reviewer_prompt_checkpoint" -> EditReviewerPromptEdge(v)
    [] node = "review_agents" -> ReviewAgentsEdge(v)
    [] node = "review_checkpoint" -> ReviewCheckpointEdge(v)
    [] node = "edit_planner_prompt_checkpoint" -> EditPlannerPromptEdge(v)

CheckpointNodes ==
  { "plan_checkpoint", "edit_reviewer_prompt_checkpoint", "review_checkpoint",
    "edit_planner_prompt_checkpoint" }

\* step_name each checkpoint node passes to create_checkpoint.
StepName(node) ==
  CASE node = "plan_checkpoint" -> "plan_ready_for_review"
    [] node = "edit_reviewer_prompt_checkpoint" -> "edit_reviewer_prompt"
    [] node = "review_checkpoint" -> "reviews_ready_for_consolidation"
    [] node = "edit_planner_prompt_checkpoint" -> "edit_planner_prompt"

\* human_input.get("edited_content", default): the user's text, else the default.
EditedOr(res) == IF res.edited = 1 THEN 2 ELSE 1

\* create_plan_review_checkpoint: the updates returned after the interrupt.
PlanReviewUpdates(v, res) ==
  IF res.action = "send_to_reviewers"
  THEN [v EXCEPT !.user_edits = EditedOr(res), !.status = "ready_for_review",
                 !.next_step = "review_agents", !.messages = Append(@, "user_note")]
  ELSE IF res.action = "edit_and_continue"
  THEN [v EXCEPT !.user_edits = EditedOr(res),
                 !.status = "editing_reviewer_prompt",
                 !.next_step = "edit_reviewer_prompt",
                 !.messages = Append(@, "user_note")]
  ELSE [v EXCEPT !.status = "cancelled", !.next_step = "end",
                 !.messages = Append(@, "user_note")]

\* create_prompt_edit_checkpoint: the updates returned after the interrupt.
PromptEditUpdates(v, res, step) ==
  IF res.action = "cancel"
  THEN [v EXCEPT !.status = "cancelled", !.next_step = "end",
                 !.messages = Append(@, "user_note")]
  ELSE IF step = "edit_reviewer_prompt"
  THEN [v EXCEPT !.reviewer_prompt = v.current_plan, !.status = "ready_for_review",
                 !.checkpoint_number = v.checkpoint_number + 1,
                 !.messages = Append(@, "user_note")]
  ELSE IF step = "edit_planner_prompt"
  THEN [v EXCEPT !.planner_prompt = v.current_plan, !.status = "revision_needed",
                 !.iteration_count = v.iteration_count + 1,
                 !.checkpoint_number = v.checkpoint_number + 1,
                 !.messages = Append(@, "user_note")]
  ELSE v

\* The same updates with request_revision counted as an iteration.
ReviewConsolidationUpdatesCounting(v, res) ==
  IF res.action = "request_revision"
  THEN [v EXCEPT !.status = "revision_needed", !.next_step = "planning_agent",
                 !.iteration_count = v.iteration_count + 1,
                 !.messages = Append(@, "user_note")]
  ELSE IF res.action = "edit_prompt_and_revise"
  THEN [v EXCEPT !.status = "editing_planner_prompt",
                 !.next_step = "edit_planner_prompt",
                 !.messages = Append(@, "user_note")]
  ELSE IF res.action = "approve_plan"
  THEN [v EXCEPT !.status = "completed", !.next_step = "end",
                 !.messages = Append(@, "user_note")]
  ELSE [v EXCEPT !.status = "cancelled", !.next_step = "end",
                 !.messages = Append(@, "user_note")]

\* create_review_consolidation_checkpoint: the updates returned after the
\* interrupt (consolidated_feedback is no key of PlanReviewState).
ReviewConsolidationUpdates(v, res) ==
  IF res.action = "request_revision"
  THEN [v EXCEPT !.status = "revision_needed", !.next_step = "planning_agent",
                 !.messages = Append(@, "user_note")]
  ELSE IF res.action = "edit_prompt_and_revise"
  THEN [v EXCEPT !.status = "editing_planner_prompt",
                 !.next_step = "edit_planner_prompt",
                 !.messages = Append(@, "user_note")]
  ELSE IF res.action = "approve_plan"
  THEN [v EXCEPT !.status = "completed", !.next_step = "end",
                 !.messages = Append(@, "user_note")]
  ELSE [v EXCEPT !.status = "cancelled", !.next_step = "end",
                 !.messages = Append(@, "user_note")]

CheckpointUpdates(node, v, res) ==
  CASE node = "plan_checkpoint" -> PlanReviewUpdates(v, res)
    [] node = "review_checkpoint" -> ReviewConsolidationUpdates(v, res)
    [] OTHER -> PromptEditUpdates(v, res, StepName(node))

\* ------------------------------------------------------ user_checkpoints
\* _save_checkpoint_to_db: plain INSERT of a pending row.  susp is the id of
\* the suspension the row was written for (the row's own id when the node
\* suspends, the pending interrupt's id when the node is re-entered on resume).
InsertCheckpoint(rows, id, v, node, susp) ==
  Append(rows, [id |-> id, number |-> v.checkpoint_number, step |-> StepName(node),
                status |-> "pending", edited |-> 0, notes |-> 0, susp |-> susp])

\* INSERT OR REPLACE in its place: a row with the id is written anew as pending.
InsertOrReplace(rows, p) ==
  IF \E i \in DOMAIN rows : rows[i].id = p.id
  THEN [i \in DOMAIN rows |->
          IF rows[i].id = p.id
          THEN [rows[i] EXCEPT !.status = "pending", !.edited = 0, !.notes = 0]
          ELSE rows[i]]
  ELSE Append(rows, [id |-> p.id, number |-> p.number, step |-> p.step,
                     status |-> "pending", edited |-> 0, notes |-> 0,
                     susp |-> p.id])

\* save_checkpoint_created: INSERT OR IGNORE on the primary key id.
InsertOrIgnore(rows, p) ==
  IF \E i \in DOMAIN rows : rows[i].id = p.id THEN rows
  ELSE Append(rows, [id |-> p.id, number |-> p.number, step |-> p.step,
                     status |-> "pending", edited |-> 0, notes |-> 0,
                     susp |-> p.id])

\* UPDATE user_checkpoints SET user_edited_content, user_notes, status
\* WHERE id = ?  (both writers; st is the status their status_map gives).
UpdateResolution(rows, id, res, st) ==
  [i \in DOMAIN rows |->
     IF rows[i].id = id
     THEN [rows[i] EXCEPT !.status = st, !.edited = res.edited, !.notes = res.notes]
     ELSE rows[i]]

\* uuid.uuid4(): an id no row and no payload carries yet.
FreshId == Len(checkpoints) + 1

\* ------------------------------------------------------ agent_executions
\* The prompt a node builds: the user's custom prompt when the state holds
\* one, else the conversation-history template when iteration_count > 0, else
\* the default initial template.
PromptKind(custom, v) ==
  IF custom THEN "custom"
  ELSE IF v.iteration_count > 0 THEN "history"
  ELSE "initial"

\* The prompt as stored in input_content: its kind, the plan its text
\* carries (the stored custom prompt's plan when the state holds a custom
\* prompt, state.get("user_edits") or state["current_plan"] otherwise) and,
\* for the planner's initial template, the requirements it embeds, which are
\* state["messages"][-1].content.
Prompt(custom, v, type) ==
  [ kind |-> PromptKind(custom # 0, v),
    plan |-> IF custom # 0 THEN custom ELSE v.current_plan,
    requirements |->
      IF type = "planning" /\ PromptKind(custom # 0, v) = "initial"
      THEN v.messages[Len(v.messages)] ELSE "none" ]

\* Failure messages of CLIAgent.send_message (str(e) of the CLIAgentError): the
\* deadline expired; the process exited non-zero (the message ends with its
\* stderr, here without and with the words "timed out" in it).
DeadlineMessage == "timed out"

FailureMessages == {DeadlineMessage, "error", "error: timed out"}

\* `"timed out" in str(e).lower()`: the test both nodes use to tell a timeout.
DetectedAsTimeout(msg) == msg \in {"timed out", "error: timed out"}

\* _create_agent_execution: INSERT with status running (input_content is the
\* prompt, kept as its kind and the plan it carries).
CreateExecution(rows, agent, type, prompt) ==
  Append(rows, [agent |-> agent, type |-> type, prompt |-> prompt,
                status |-> "running", output |-> "none", returned |-> FALSE])

\* CompleteExecution with the failure branches of the tracked call left out:
\* only a successful call closes its row.
CompleteExecutionSuccessOnly(row, outcome) ==
  IF outcome = "ok"
  THEN [row EXCEPT !.status = "completed", !.output = "result", !.returned = TRUE]
  ELSE [row EXCEPT !.returned = TRUE]

\* The try/except of the tracked call around agent.send_message: on success
\* _complete_agent_execution(completed, result); on CLIAgentError or any other
\* exception _complete_agent_execution(failed, str(e)); then the call returns
\* or raises.
CompleteExecution(row, outcome) ==
  IF outcome = "ok"
  THEN [row EXCEPT !.status = "completed", !.output = "result", !.returned = TRUE]
  ELSE [row EXCEPT !.status = "failed", !.output = outcome, !.returned = TRUE]

\* An agent call settles: "ok", or one of the failure messages.
AgentReturns(e, outcome) ==
  /\ ~restarted
  /\ e \in DOMAIN executions
  /\ executions[e].status = "running" /\ ~executions[e].returned
  /\ outcome # "ok" => faults < MaxFaults
  /\ executions' = [executions EXCEPT ![e] = CompleteExecution(@, outcome)]
  /\ faults' = IF outcome = "ok" THEN faults ELSE faults + 1
  /\ UNCHANGED <<active, wfRow, graph, checkpoints, tasks, resumes, emitted, restarted>>
  /\ UNCHANGED others

\* ------------------------------------------------------------ status manager
\* An exception reaches the except clause of execute_workflow /
\* resume_workflow_execution: mark_failed(validate=False) runs up to its first
\* await, i.e. writes the in-memory status if the entry is still there.
FailedInMemory(cur) == IF cur = "absent" THEN "absent" ELSE "failed"

Raise(t, err) ==
  /\ active' = FailedInMemory(active)
  /\ tasks' = [tasks EXCEPT ![t] = [Idle EXCEPT !.pc = "failed_db", !.err = err]]

\* mark_running / mark_awaiting_checkpoint / mark_completed up to the first
\* await: the validation guard, then the in-memory write (a KeyError when the
\* entry has been removed).
MarkInMemory(t, to, pcNext) ==
  IF active = "absent" THEN Raise(t, "KeyError")
  ELSE IF TransitionRejected(active, to) THEN Raise(t, "ValueError")
  ELSE /\ active' = to
       /\ tasks' = [tasks EXCEPT ![t] = [Idle EXCEPT !.pc = pcNext, !.res = tasks[t].res]]

\* The UPDATE workflows SET status of each mark_* call.
StatusDb(t, pc, to, pcNext) ==
  /\ tasks[t].pc = pc
  /\ wfRow' = to
  /\ tasks' = [tasks EXCEPT ![t].pc = pcNext]
  /\ UNCHANGED <<active, graph, checkpoints, executions, resumes, faults,
                 emitted, restarted>>
  /\ UNCHANGED others

RunningDb(t) == StatusDb(t, "running_db", "running", "resume_state")

AwaitingDb(t) == StatusDb(t, "awaiting_db", "awaiting_checkpoint", "awaiting_notify")

CompletedDb(t) == StatusDb(t, "completed_db", "completed", "completed_notify")

FailedDb(t) == StatusDb(t, "failed_db", "failed", "failed_notify")

\* mark_awaiting_checkpoint after the UPDATE: broadcast checkpoint_ready.
AwaitingNotify(t) ==
  /\ tasks[t].pc = "awaiting_notify"
  /\ tasks' = [tasks EXCEPT ![t] = Idle]
  /\ UNCHANGED <<active, wfRow, graph, checkpoints, executions, resumes, faults,
                 emitted, restarted>>
  /\ UNCHANGED others

\* mark_completed / mark_failed after the UPDATE: broadcast, then remove the
\* active-workflow entry (terminal state).
TerminalNotify(t, pc) ==
  /\ tasks[t].pc = pc
  /\ active' = "absent"
  /\ tasks' = [tasks EXCEPT ![t] = Idle]
  /\ UNCHANGED <<wfRow, graph, checkpoints, executions, resumes, faults,
                 emitted, restarted>>
  /\ UNCHANGED others

CompletedNotify(t) == TerminalNotify(t, "completed_notify")

FailedNotify(t) == TerminalNotify(t, "failed_notify")

\* ------------------------------------------------------------ workflow API
\* get_workflow: the pending checkpoint is read only for a workflow in
\* active_workflows; a pending payload is recorded with save_checkpoint_created.
PendingCheckpoint ==
  IF active # "absent" /\ graph.intr.id # 0 THEN graph.intr.id ELSE 0

GetWorkflow ==
  /\ wfRow # "none"
  /\ checkpoints' = IF PendingCheckpoint # 0
                    THEN InsertOrIgnore(checkpoints, graph.intr)
                    ELSE checkpoints
  /\ UNCHANGED <<active, wfRow, graph, executions, tasks, resumes, faults,
                 emitted, restarted>>

Get ==
  /\ GetWorkflow
  /\ UNCHANGED others

\* resume_workflow without its membership test: every request is queued.
ResumeAcceptedAlways == TRUE

\* resume_workflow: 404 unless the workflow is in active_workflows; otherwise
\* resume_workflow_execution is queued as a background task.
ResumeAccepted == active # "absent"

ResumeRequest(res) ==
  /\ resumes < MaxResumes
  /\ resumes' = resumes + 1
  /\ Cardinality({t \in Slots : tasks[t].pc # "idle"}) < MaxInFlight
  /\ tasks' = IF ResumeAccepted
              THEN [tasks EXCEPT ![resumes + 1] =
                      [Idle EXCEPT !.pc = "mark_running", !.res = res]]
              ELSE tasks
  /\ UNCHANGED <<active, wfRow, graph, checkpoints, executions, faults, emitted,
                 restarted>>
  /\ UNCHANGED others

\* resume_workflow_execution up to its first await: mark_running(validate=False).
StartResume(t) ==
  /\ tasks[t].pc = "mark_running"
  /\ MarkInMemory(t, "running", "running_db")
  /\ UNCHANGED <<wfRow, graph, checkpoints, executions, resumes, faults, emitted, restarted>>
  /\ UNCHANGED others

\* resume_workflow_execution after mark_running: aget_state, and for a pending
\* interrupt save_checkpoint_resolution on its checkpoint_id; then
\* ainvoke(Command(resume=resolution)) loads the persisted snapshot.  The
\* resume value answers the first interrupt() the execution reaches.
ResumeInvoke(t) ==
  /\ tasks[t].pc = "resume_state"
  /\ checkpoints' =
       IF graph.intr.id # 0
       THEN UpdateResolution(checkpoints, graph.intr.id, tasks[t].res,
                             ApiStatusMap(tasks[t].res.action))
       ELSE checkpoints
  /\ tasks' = [tasks EXCEPT ![t] =
       [@ EXCEPT !.pc = IF graph.next \in {"END", "none"} THEN "post" ELSE "run",
                 !.node = graph.next, !.vals = graph.vals, !.resume = TRUE,
                 !.forIntr = graph.intr.id]]
  /\ UNCHANGED <<active, wfRow, graph, executions, resumes, faults, emitted, restarted>>
  /\ UNCHANGED others

\* A node returned its updates v: the engine follows the outbound edge and
\* persists the snapshot; at END ainvoke returns.
Advance(t, v) ==
  LET n == NextNode(tasks[t].node, v) IN
  /\ graph' = [next |-> n, vals |-> v, intr |-> NoInterrupt]
  /\ tasks' = [tasks EXCEPT ![t] =
       [@ EXCEPT !.pc = IF n = "END" THEN "post" ELSE "run", !.node = n,
                 !.vals = v, !.calls = {}]]

\* _planning_agent_node up to send_message: get the agent, build the prompt,
\* create the execution row.
PlannerStart(t) ==
  /\ tasks[t].pc = "run" /\ tasks[t].node = "planning_agent"
  /\ executions' = CreateExecution(executions, 0, "planning",
                                    Prompt(tasks[t].vals.planner_prompt,
                                           tasks[t].vals, "planning"))
  /\ tasks' = [tasks EXCEPT ![t] =
       [@ EXCEPT !.pc = "wait", !.calls = {Len(executions) + 1}]]
  /\ UNCHANGED <<active, wfRow, graph, checkpoints, resumes, faults, emitted, restarted>>
  /\ UNCHANGED others

\* The updates _planning_agent_node returns on success.
PlannerUpdates(v) ==
  [v EXCEPT !.current_plan = v.current_plan + 1, !.status = "plan_created",
            !.checkpoint_number = v.checkpoint_number + 1,
            !.retry_agent = FALSE, !.messages = Append(@, "planning_agent")]

\* What the node does with a call that timed out: it calls
\* checkpoint_manager.create_timeout_checkpoint, which CheckpointManager does
\* not define, so the node raises AttributeError.
TimeoutHandling == "AttributeError"

\* _planning_agent_node after send_message settled.
PlannerJoin(t) ==
  /\ tasks[t].pc = "wait" /\ tasks[t].node = "planning_agent"
  /\ \E e \in tasks[t].calls :
       /\ executions[e].returned
       /\ CASE executions[e].output = "result" ->
                 /\ Advance(t, PlannerUpdates(tasks[t].vals))
                 /\ active' = active
            [] DetectedAsTimeout(executions[e].output) ->
                 /\ Raise(t, TimeoutHandling)
                 /\ graph' = graph
            [] OTHER ->
                 /\ Raise(t, "CLIAgentError")
                 /\ graph' = graph
  /\ UNCHANGED <<wfRow, checkpoints, executions, resumes, faults, emitted, restarted>>
  /\ UNCHANGED others

RECURSIVE CreateReviewRows(_, _, _)
CreateReviewRows(rows, k, prompt) ==
  IF k > NumReviewers THEN rows
  ELSE CreateReviewRows(CreateExecution(rows, k, "review", prompt), k + 1, prompt)

\* _review_agents_node up to asyncio.gather: one tracked call per reviewer,
\* each creating its execution row.
ReviewersStart(t) ==
  /\ tasks[t].pc = "run" /\ tasks[t].node = "review_agents"
  /\ executions' = CreateReviewRows(executions, 1,
                                     Prompt(tasks[t].vals.reviewer_prompt,
                                            tasks[t].vals, "review"))
  /\ tasks' = [tasks EXCEPT ![t] =
       [@ EXCEPT !.pc = "wait",
                 !.calls = (Len(executions) + 1)..(Len(executions) + NumReviewers)]]
  /\ UNCHANGED <<active, wfRow, graph, checkpoints, resumes, faults, emitted, restarted>>
  /\ UNCHANGED others

\* name=f"review_agent_{i}" of the message of the i-th result (i from 0).
ReviewAgentName(k) ==
  CASE k = 1 -> "review_agent_0" [] k = 2 -> "review_agent_1"
    [] OTHER -> "review_agent_2"

\* The AIMessages of the successful results, in the order of the reviewers.
ReviewMessages(ok) ==
  LET all == [k \in Reviewers |-> k]
      kept == SelectSeq(all, LAMBDA k : k \in ok)
  IN  [i \in DOMAIN kept |-> ReviewAgentName(kept[i])]

\* The updates _review_agents_node returns when every review succeeded.
ReviewUpdates(v, ok) ==
  [v EXCEPT !.review_feedback = ok, !.status = "reviews_collected",
            !.checkpoint_number = v.checkpoint_number + 1,
            !.messages = @ \o ReviewMessages(ok)]

\* _review_agents_node from asyncio.gather on: gather raises as soon as one
\* call raised; otherwise, when all have settled, a timed-out call goes to
\* create_timeout_checkpoint and else the feedback is collected.
ReviewersJoin(t) ==
  /\ tasks[t].pc = "wait" /\ tasks[t].node = "review_agents"
  /\ LET done == {e \in tasks[t].calls : executions[e].returned}
         raised == {e \in done : executions[e].status = "failed"
                                    /\ ~DetectedAsTimeout(executions[e].output)}
         timedOut == {e \in done : DetectedAsTimeout(executions[e].output)}
     IN  /\ raised # {} \/ done = tasks[t].calls
         /\ IF raised # {}
            THEN Raise(t, "CLIAgentError") /\ graph' = graph
            ELSE IF timedOut # {}
            THEN Raise(t, TimeoutHandling) /\ graph' = graph
            ELSE /\ Advance(t, ReviewUpdates(tasks[t].vals,
                                  {executions[e].agent : e \in done}))
                 /\ active' = active
  /\ UNCHANGED <<wfRow, checkpoints, executions, resumes, faults, emitted, restarted>>
  /\ UNCHANGED others

\* A checkpoint node: create_checkpoint draws a fresh id, inserts the pending
\* row and calls interrupt().  Without a resume value the graph suspends with
\* the payload and ainvoke returns; with one, interrupt() returns it, the
\* manager records the resolution on the row just inserted and the node
\* returns its updates.
CheckpointNode(t) ==
  /\ tasks[t].pc = "run" /\ tasks[t].node \in CheckpointNodes
  /\ LET T == tasks[t]
         id == FreshId
         payload == [id |-> id, number |-> T.vals.checkpoint_number,
                     step |-> StepName(T.node)]
     IN IF ~T.resume
        THEN /\ checkpoints' = InsertCheckpoint(checkpoints, id, T.vals, T.node, id)
             /\ graph' = [next |-> T.node, vals |-> T.vals, intr |-> payload]
             /\ emitted' = Append(emitted, payload)
             /\ tasks' = [tasks EXCEPT ![t].pc = "post"]
        ELSE /\ checkpoints' =
                  UpdateResolution(
                    InsertCheckpoint(checkpoints, id, T.vals, T.node,
                                     IF T.forIntr # 0 THEN T.forIntr ELSE id),
                    id, T.res, ManagerStatusMap(T.res.action))
             /\ emitted' = emitted
             /\ LET v == CheckpointUpdates(T.node, T.vals, T.res)
                    n == NextNode(T.node, v)
                IN /\ graph' = [next |-> n, vals |-> v, intr |-> NoInterrupt]
                   /\ tasks' = [tasks EXCEPT ![t] =
                        [@ EXCEPT !.pc = IF n = "END" THEN "post" ELSE "run",
                                  !.node = n, !.vals = v, !.resume = FALSE,
                                  !.forIntr = 0, !.res = NoResolution]]
  /\ UNCHANGED <<active, wfRow, executions, resumes, faults, restarted>>
  /\ UNCHANGED others

\* AfterInvoke with the resume path treated like the initial run: whatever the
\* graph state, the workflow is marked awaiting_checkpoint.
AfterInvokeAlwaysAwaiting(t) ==
  /\ tasks[t].pc = "post"
  /\ MarkInMemory(t, "awaiting_checkpoint", "awaiting_db")
  /\ UNCHANGED <<wfRow, graph, checkpoints, executions, resumes, faults, emitted, restarted>>
  /\ UNCHANGED others

\* After ainvoke returned.  execute_workflow always calls
\* mark_awaiting_checkpoint; resume_workflow_execution reads the state again and
\* calls mark_awaiting_checkpoint when an interrupt is pending, mark_completed
\* otherwise.
AfterInvoke(t) ==
  /\ tasks[t].pc = "post"
  /\ IF t = 0 \/ graph.intr.id # 0
     THEN MarkInMemory(t, "awaiting_checkpoint", "awaiting_db")
     ELSE MarkInMemory(t, "completed", "completed_db")
  /\ UNCHANGED <<wfRow, graph, checkpoints, executions, resumes, faults, emitted, restarted>>
  /\ UNCHANGED others

\* The server process stops and starts again: active_workflows and every
\* running coroutine are gone, the database and the engine's store remain.
Restart ==
  /\ wfRow # "none" /\ ~restarted
  /\ restarted' = TRUE
  /\ active' = "absent"
  /\ tasks' = [s \in Slots |-> Idle]
  /\ UNCHANGED <<wfRow, graph, checkpoints, executions, resumes, faults, emitted>>
  /\ UNCHANGED others

Next ==
  \/ Create
  \/ Get
  \/ \E res \in Resolutions : ResumeRequest(res)
  \/ Restart
  \/ \E e \in DOMAIN executions, o \in {"ok"} \cup FailureMessages :
       AgentReturns(e, o)
  \/ \E t \in Slots :
       \/ StartResume(t)
       \/ RunningDb(t)
       \/ ResumeInvoke(t)
       \/ PlannerStart(t)
       \/ PlannerJoin(t)
       \/ ReviewersStart(t)
       \/ ReviewersJoin(t)
       \/ CheckpointNode(t)
       \/ AfterInvoke(t)
       \/ AwaitingDb(t)
       \/ AwaitingNotify(t)
       \/ CompletedDb(t)
       \/ CompletedNotify(t)
       \/ FailedDb(t)
       \/ FailedNotify(t)

Spec == Init /\ [][Next]_vars

\* ------------------------------------------------------------ patient user
\* The same runtime driven by a user who resumes only a workflow that waits at
\* a checkpoint with no background task left, one resolution at a time.
Quiescent == \A t \in Slots : tasks[t].pc = "idle"

\* resume_workflow, called for a workflow waiting at a checkpoint.
ResumeWhenAwaiting(res) ==
  /\ Quiescent /\ active = "awaiting_checkpoint" /\ PendingCheckpoint # 0
  /\ Len(log) < MaxRounds
  /\ log' = Append(log, res.action)
  /\ tasks' = [tasks EXCEPT ![1] = [Idle EXCEPT !.pc = "mark_running", !.res = res]]
  /\ UNCHANGED <<active, wfRow, graph, checkpoints, executions, resumes, faults,
                 emitted, restarted>>
  /\ UNCHANGED <<polls, factoryVars, pubVars, runnerVars, parserVars, writerVars, managerVars, walkVars, retryVars, labelVars, scanVars, salvageVars>>

NextPatient ==
  \/ Create
  \/ Get
  \/ \E res \in Resolutions : ResumeWhenAwaiting(res)
  \/ \E e \in DOMAIN executions, o \in {"ok"} \cup FailureMessages :
       AgentReturns(e, o)
  \/ \E t \in Slots :
       \/ StartResume(t)
       \/ RunningDb(t)
       \/ ResumeInvoke(t)
       \/ PlannerStart(t)
       \/ PlannerJoin(t)
       \/ ReviewersStart(t)
       \/ ReviewersJoin(t)
       \/ CheckpointNode(t)
       \/ AfterInvoke(t)
       \/ AwaitingDb(t)
       \/ AwaitingNotify(t)
       \/ CompletedDb(t)
       \/ CompletedNotify(t)
       \/ FailedDb(t)
       \/ FailedNotify(t)

SpecPatient == Init /\ [][NextPatient]_vars

\* ------------------------------------------------------------ audited polls
\* The status of the user_checkpoints row with the given id, "none" without one.
RowStatus(id) ==
  IF \E i \in DOMAIN checkpoints : checkpoints[i].id = id
  THEN checkpoints[CHOOSE i \in DOMAIN checkpoints : checkpoints[i].id = id].status
  ELSE "none"

\* get_workflow, with a note of the row save_checkpoint_created met for the
\* pending checkpoint's id.
GetObserved ==
  /\ Cardinality(polls) < MaxPolls
  /\ GetWorkflow
  /\ polls' = IF PendingCheckpoint # 0
              THEN polls \cup {[id |-> graph.intr.id, had |-> RowStatus(graph.intr.id)]}
              ELSE polls
  /\ UNCHANGED <<log, factoryVars, pubVars, runnerVars, parserVars, writerVars, managerVars, walkVars, retryVars, labelVars, scanVars, salvageVars>>

NextAudit ==
  \/ GetObserved
  \/ NextPatient

SpecAudit == Init /\ [][NextAudit]_vars

\* ------------------------------------------------------------ agent factory
\* Role and agent names are strings, kept as sequences of tokens so that the
\* cache key is built as the code builds it.
Roles == { <<"review">>, <<"review", "_", "claude">> }

Names == { <<"claude", "_", "reviewer">>, <<"reviewer">> }

Workspaces == {"ws1", "ws2"}

\* agent_key = f"{role}_{name}"
AgentKey(role, name) == role \o <<"_">> \o name

\* _get_timeout_for_role
TimeoutForRole(role) ==
  CASE role = <<"planning">> -> "planning_agent_timeout"
    [] role = <<"review">> -> "review_agent_timeout"
    [] role = <<"summary">> -> "summary_agent_timeout"
    [] OTHER -> "agent_timeout"

\* `agent_key in self._agents` / `self._agents[agent_key]`
Lookup(key) ==
  IF \E r \in cache : r.key = key
  THEN (CHOOSE r \in cache : r.key = key).inst
  ELSE 0

\* self._agents[agent_key] = agent
Store(key, inst) ==
  {r \in cache : r.key # key} \cup {[key |-> key, inst |-> inst]}

\* get_agent up to `await agent.start()`: a cached agent is returned as it
\* is; otherwise the agent is constructed with the caller's workspace and the
\* role's timeout.  MockAgent.start sleeps, so the call is suspended before
\* the agent is stored; the CLI agents' start does not suspend.
GetAgent(c, role, name, ws) ==
  /\ gets[c].pc = "idle"
  /\ c > 1 => gets[c - 1].pc # "idle"
  /\ LET key == AgentKey(role, name)
         hit == Lookup(key)
         id == Len(instances) + 1
         call == [IdleGet EXCEPT !.role = role, !.name = name, !.ws = ws,
                                 !.from = epoch, !.till = epoch]
     IN IF hit # 0
        THEN /\ gets' = [gets EXCEPT ![c] = [call EXCEPT !.pc = "done", !.inst = hit]]
             /\ UNCHANGED <<cache, instances>>
        ELSE /\ instances' = Append(instances,
                                    [role |-> role, name |-> name, workspace |-> ws,
                                     timeout |-> TimeoutForRole(role)])
             /\ IF useMocks
                THEN /\ gets' = [gets EXCEPT ![c] =
                                   [call EXCEPT !.pc = "starting", !.inst = id]]
                     /\ cache' = cache
                ELSE /\ gets' = [gets EXCEPT ![c] =
                                   [call EXCEPT !.pc = "done", !.inst = id]]
                     /\ cache' = Store(key, id)
  /\ UNCHANGED <<useMocks, epoch>>
  /\ UNCHANGED notFactory

\* get_agent after `await agent.start()`: store the agent and return it.
AgentStarted(c) ==
  /\ gets[c].pc = "starting"
  /\ cache' = Store(AgentKey(gets[c].role, gets[c].name), gets[c].inst)
  /\ gets' = [gets EXCEPT ![c].pc = "done", ![c].till = epoch]
  /\ UNCHANGED <<instances, useMocks, epoch>>
  /\ UNCHANGED notFactory

\* stop_all: stop every agent and clear the cache.
StopAll ==
  /\ epoch < MaxStops
  /\ epoch' = epoch + 1
  /\ cache' = {}
  /\ UNCHANGED <<instances, gets, useMocks>>
  /\ UNCHANGED notFactory

InitFactory ==
  /\ WorkflowInit
  /\ FactoryIdle /\ useMocks \in BOOLEAN
  /\ PubSubIdle
  /\ RunnerIdle
  /\ ParserIdle
  /\ WritersIdle
  /\ ManagerIdle
  /\ WalkIdle
  /\ RetryIdle
  /\ LabelsIdle
  /\ ScanIdle
  /\ SalvageIdle

NextFactory ==
  \/ \E c \in GetCalls, role \in Roles, name \in Names, ws \in Workspaces :
       GetAgent(c, role, name, ws)
  \/ \E c \in GetCalls : AgentStarted(c)
  \/ StopAll

SpecFactory == InitFactory /\ [][NextFactory]_vars

\* ------------------------------------------------------------ notifications
\* list.remove(x): the list without the first x.
Without(list, x) ==
  LET i == CHOOSE j \in DOMAIN list : list[j] = x /\ \A k \in 1..(j - 1) : list[k] # x
  IN SubSeq(list, 1, i - 1) \o SubSeq(list, i + 1, Len(list))

Has(list, x) == \E j \in DOMAIN list : list[j] = x

\* websocket_endpoint up to its loop: accept, create the key if needed, append.
Connect(c) ==
  /\ subs[c] = "none"
  /\ subs' = [subs EXCEPT ![c] = "open"]
  /\ conns' = IF conns.present
               THEN [conns EXCEPT !.list = Append(@, c)]
               ELSE [present |-> TRUE, gen |-> conns.gen + 1, list |-> <<c>>]
  /\ UNCHANGED <<broken, pub>>
  /\ UNCHANGED notPubSub

\* The client goes away: every later send on its socket raises.
Break(c) ==
  /\ subs[c] = "open" /\ c \notin broken
  /\ broken' = broken \cup {c}
  /\ UNCHANGED <<conns, subs, pub>>
  /\ UNCHANGED notPubSub

\* websocket_endpoint: the handler's own send failed, it leaves the loop and
\* its finally clause removes the socket and deletes the key of an empty list.
HandlerCleanup(c) ==
  /\ subs[c] = "open" /\ c \in broken
  /\ subs' = [subs EXCEPT ![c] = "closed"]
  /\ LET l == IF conns.present /\ Has(conns.list, c)
               THEN Without(conns.list, c) ELSE conns.list
     IN conns' = IF conns.present /\ l = << >>
                 THEN [conns EXCEPT !.present = FALSE, !.list = << >>]
                 ELSE [conns EXCEPT !.list = l]
  /\ UNCHANGED <<broken, pub>>
  /\ UNCHANGED notPubSub

\* broadcast_to_workflow up to the loop: nothing to do without the key.
BroadcastStart ==
  /\ pub.pc = "idle"
  /\ pub' = IF conns.present
             THEN [IdlePub EXCEPT !.pc = "loop", !.gen = conns.gen,
                                  !.at = {conns.list[j] : j \in DOMAIN conns.list}]
             ELSE [IdlePub EXCEPT !.pc = "done", !.result = "ok"]
  /\ UNCHANGED <<conns, subs, broken>>
  /\ UNCHANGED notPubSub

\* The clean-up loop: active_connections[workflow_id].remove(conn) for each
\* dead connection; KeyError without the key, ValueError without the element.
RECURSIVE CleanUp(_, _)
CleanUp(st, dead) ==
  IF dead = << >> \/ st.err # "ok" THEN st
  ELSE IF ~st.present THEN [st EXCEPT !.err = "KeyError"]
  ELSE IF ~Has(st.list, Head(dead)) THEN [st EXCEPT !.err = "ValueError"]
  ELSE CleanUp([st EXCEPT !.list = Without(@, Head(dead))], Tail(dead))

\* One turn of `for connection in active_connections[workflow_id]`: the list
\* iterator takes the element at its index from the list object as it is now
\* and the send is awaited; at the end of the list the clean-up loop runs.
BroadcastNext ==
  /\ pub.pc = "loop"
  /\ LET l == IF conns.present /\ conns.gen = pub.gen THEN conns.list ELSE << >>
     IN IF pub.idx < Len(l)
        THEN /\ pub' = [pub EXCEPT !.pc = "sending", !.cur = l[pub.idx + 1],
                                   !.idx = pub.idx + 1]
             /\ conns' = conns
        ELSE LET st == CleanUp([present |-> conns.present, list |-> conns.list,
                                err |-> "ok"], pub.dead)
             IN /\ pub' = [pub EXCEPT !.pc = "done", !.result = st.err]
                /\ conns' = [conns EXCEPT !.list = st.list]
  /\ UNCHANGED <<subs, broken>>
  /\ UNCHANGED notPubSub

\* `await connection.send_json(message)` settles: delivered, or the bare
\* except notes the connection as dead.
SendDone ==
  /\ pub.pc = "sending"
  /\ pub' = IF pub.cur \in broken
             THEN [pub EXCEPT !.pc = "loop", !.dead = Append(@, pub.cur)]
             ELSE [pub EXCEPT !.pc = "loop", !.got = @ \cup {pub.cur}]
  /\ UNCHANGED <<conns, subs, broken>>
  /\ UNCHANGED notPubSub

InitPubSub == Init

NextPubSub ==
  \/ \E c \in Subscribers : Connect(c)
  \/ \E c \in Subscribers : Break(c)
  \/ \E c \in Subscribers : HandlerCleanup(c)
  \/ BroadcastStart
  \/ BroadcastNext
  \/ SendDone

SpecPubSub == InitPubSub /\ [][NextPubSub]_vars

\* ------------------------------------------------------------ CLI runner
\* The finally clause of send_message: os.unlink(stdout_file) when it exists.
CleanTempNever(fs, f) == fs

CleanTemp(fs, f) == [fs EXCEPT ![f] = 0]

\* How a call whose process exited ends: exit code 0 and a parsed response, a
\* non-zero exit code, empty stdout, or stdout that cannot be parsed.
ExitOutcomes == {"ok", "nonzero exit", "empty output", "parse failure"}

\* send_message up to the spawn: the temp file is created (delete=False).
RunStart(c, f) ==
  /\ runs[c].pc = "idle"
  /\ files[f] = 0
  /\ files' = [files EXCEPT ![f] = c]
  /\ runs' = [runs EXCEPT ![c] = [IdleRun EXCEPT !.pc = "spawn", !.file = f]]
  /\ UNCHANGED procs
  /\ UNCHANGED notRunner

\* create_subprocess_shell returns the process, or raises (spawn error): the
\* generic except clause raises CLIAgentError and the finally clause runs.
Spawn(c, ok) ==
  /\ runs[c].pc = "spawn"
  /\ IF ok
     THEN /\ runs' = [runs EXCEPT ![c].pc = "wait", ![c].proc = c]
          /\ procs' = procs \cup {c}
          /\ files' = files
     ELSE /\ runs' = [runs EXCEPT ![c].pc = "raised", ![c].out = "spawn error"]
          /\ procs' = procs
          /\ files' = CleanTemp(files, runs[c].file)
  /\ UNCHANGED notRunner

\* communicate() returned within the deadline (the process has exited and is
\* reaped): exit code test, read of the temp file, parse_response, finally.
Exit(c, outcome) ==
  /\ runs[c].pc = "wait"
  /\ procs' = procs \ {runs[c].proc}
  /\ runs' = [runs EXCEPT ![c].pc = IF outcome = "ok" THEN "returned" ELSE "raised",
                          ![c].out = outcome]
  /\ files' = CleanTemp(files, runs[c].file)
  /\ UNCHANGED notRunner

\* asyncio.TimeoutError: process.kill(), then `await process.wait()`.
TimeoutKill(c) ==
  /\ runs[c].pc = "wait"
  /\ runs' = [runs EXCEPT ![c].pc = "reaping"]
  /\ UNCHANGED <<files, procs>>
  /\ UNCHANGED notRunner

\* process.wait() returned: CLIAgentError "timed out", finally.
Reaped(c) ==
  /\ runs[c].pc = "reaping"
  /\ procs' = procs \ {runs[c].proc}
  /\ runs' = [runs EXCEPT ![c].pc = "raised", ![c].out = "timed out"]
  /\ files' = CleanTemp(files, runs[c].file)
  /\ UNCHANGED notRunner

\* The caller cancels the call while it awaits the spawn or communicate():
\* CancelledError is no Exception and no asyncio.TimeoutError, so only the
\* finally clause runs (self.process = None, unlink) and the error goes up.
Cancel(c) ==
  /\ runs[c].pc \in {"spawn", "wait"}
  /\ runs' = [runs EXCEPT ![c].pc = "raised", ![c].out = "cancelled"]
  /\ files' = CleanTemp(files, runs[c].file)
  /\ procs' = procs
  /\ UNCHANGED notRunner

InitRunner == Init

NextRunner ==
  \/ \E c \in RunCalls, f \in FileNames : RunStart(c, f)
  \/ \E c \in RunCalls, ok \in BOOLEAN : Spawn(c, ok)
  \/ \E c \in RunCalls, outcome \in ExitOutcomes : Exit(c, outcome)
  \/ \E c \in RunCalls : TimeoutKill(c)
  \/ \E c \in RunCalls : Reaped(c)
  \/ \E c \in RunCalls : Cancel(c)

SpecRunner == InitRunner /\ [][NextRunner]_vars

\* ------------------------------------------------------------ output parser
\* The `type` of a JSON object the CLI prints.
RecordTypes == {"result", "assistant", "system"}

\* A line of stdout is a sequence of pieces: plain text without braces, an
\* opening brace that is never closed (truncated JSON), or a complete JSON
\* object, written as its type.
Segments == {"txt", "open"} \cup RecordTypes

RECURSIVE SeqsUpTo(_, _)
SeqsUpTo(S, n) ==
  IF n = 0 THEN {<< >>}
  ELSE LET shorter == SeqsUpTo(S, n - 1)
       IN  shorter \cup {Append(q, x) : q \in shorter, x \in S}

Lines == SeqsUpTo(Segments, MaxSegments)

Outputs == SeqsUpTo(Lines, MaxLines)

\* The lines with their numbers in the raw output.
Numbered(out) == [i \in 1..Len(out) |-> [n |-> i, segs |-> out[i]]]

\* str.strip() on the whole text: blank lines at both ends go.
RECURSIVE StripText(_)
StripText(ls) ==
  IF ls = << >> THEN ls
  ELSE IF Head(ls).segs = << >> THEN StripText(Tail(ls))
  ELSE IF ls[Len(ls)].segs = << >> THEN StripText(SubSeq(ls, 1, Len(ls) - 1))
  ELSE ls

\* line.startswith('{') and line.endswith('}') and json.loads(line) succeeds:
\* the line is one complete object and nothing else.
IsJsonLine(l) == Len(l.segs) = 1 /\ l.segs[1] \in RecordTypes

\* obj.get('type') in ('result', 'assistant')
IsResultAnyType(l) == TRUE

IsResult(l) == l.segs[1] \in {"result", "assistant"}

\* The text as one run of pieces, each with the line it stands on.
RECURSIVE Flat(_)
Flat(ls) ==
  IF ls = << >> THEN << >>
  ELSE [j \in 1..Len(Head(ls).segs) |-> [seg |-> Head(ls).segs[j], n |-> Head(ls).n]]
         \o Flat(Tail(ls))

\* The brace-counting scan: a complete object met at depth 0 is a candidate,
\* an unclosed brace raises the depth for the rest of the text; the last
\* candidate is returned, the text itself if there is none.
RECURSIVE Scan(_, _, _, _)
Scan(ps, k, depth, last) ==
  IF k > Len(ps) THEN last
  ELSE IF ps[k].seg = "open" THEN Scan(ps, k + 1, depth + 1, last)
  ELSE IF ps[k].seg \in RecordTypes /\ depth = 0
       THEN Scan(ps, k + 1, depth, [kind |-> "object", line |-> ps[k].n, type |-> ps[k].seg])
  ELSE Scan(ps, k + 1, depth, last)

ExtractJsonFromOutput(out) ==
  LET lines == StripText(Numbered(out))
      valid_json_lines == SelectSeq(lines, IsJsonLine)
      result_candidates == SelectSeq(valid_json_lines, IsResult)
      cleaned == IF Len(lines) > 1 /\ result_candidates # << >>
                   THEN <<result_candidates[Len(result_candidates)]>>
                 ELSE IF Len(lines) > 1 /\ valid_json_lines # << >>
                   THEN <<valid_json_lines[Len(valid_json_lines)]>>
                 ELSE lines
  IN  Scan(Flat(cleaned), 1, 0, [kind |-> "text", line |-> 0, type |-> "none"])

\* The agent classes that parse JSON output (subclasses of JSONCLIAgent).
JsonAgentTypes == {"claude", "gemini"}

\* extract_content_from_json of the agent's class for a parsed object of the
\* given type: ClaudeAgent raises ValueError on a system record; GeminiAgent
\* has no such test and returns a field of the record or its json.dumps.
ExtractContentFromJson(agent, type) ==
  IF agent = "claude" /\ type = "system"
    THEN [kind |-> "error", of |-> "ValueError"]
    ELSE [kind |-> "text", of |-> type]

\* The text holds truncated JSON, in which the regex of
\* _fallback_extract_content may find a result, content or message field.
HasTruncated(out) == \E i \in 1..Len(out) : \E j \in 1..Len(out[i]) : out[i][j] = "open"

\* parse_response: empty output is an error; otherwise the JSON is extracted
\* and loaded, and the content taken from it; text that does not load goes to
\* the regex fallback, which finds a field (found) or not.
ParseResponse(found) ==
  /\ extracted = NotExtracted
  /\ LET json_str == ExtractJsonFromOutput(stdout)
     IN  IF StripText(Numbered(stdout)) = << >>
           THEN /\ found = FALSE
                /\ extracted' = [kind |-> "empty output", line |-> 0, type |-> "none"]
                /\ response' = [kind |-> "error", of |-> "empty output"]
         ELSE IF json_str.kind = "object"
           THEN /\ found = FALSE
                /\ extracted' = json_str
                /\ response' = ExtractContentFromJson(agentType, json_str.type)
         ELSE /\ found => HasTruncated(stdout)
              /\ extracted' = json_str
              /\ response' = IF found THEN [kind |-> "text", of |-> "fallback"]
                                       ELSE [kind |-> "error", of |-> "invalid JSON"]
  /\ UNCHANGED <<stdout, agentType>>
  /\ UNCHANGED notParser

InitParser ==
  /\ WorkflowInit /\ FactoryIdle /\ useMocks = FALSE /\ PubSubIdle /\ RunnerIdle
  /\ WritersIdle
  /\ ManagerIdle
  /\ WalkIdle
  /\ RetryIdle
  /\ LabelsIdle
  /\ ScanIdle
  /\ SalvageIdle
  /\ stdout \in Outputs
  /\ extracted = NotExtracted
  /\ agentType \in JsonAgentTypes
  /\ response = NoResponse

NextParser == \E found \in BOOLEAN : ParseResponse(found)

SpecParser == InitParser /\ [][NextParser]_vars

\* ------------------------------------------------------------ resolution writers
\* The action names a resolution can carry: those of both status maps and one
\* that neither map lists.
WriterActions ==
  { "send_to_reviewers", "send_to_planner_for_revision", "request_revision",
    "approve_plan", "approve", "edit_and_continue", "edit_prompt_and_revise",
    "edit_full_prompt", "cancel", "skip", "unknown" }

WriterResolutions ==
  { [action |-> a, edited |-> e, notes |-> n] :
      a \in WriterActions, e \in {0, 1}, n \in {0, 1} }

\* The resume API receives a resolution.
Receive(res) ==
  /\ resolution = NoResolution
  /\ resolution' = res
  /\ UNCHANGED <<apiRows, managerRows>>
  /\ UNCHANGED notWriters

\* save_checkpoint_resolution (resume API) on the row of the checkpoint.
SaveCheckpointResolution ==
  /\ resolution # NoResolution
  /\ apiRows' = UpdateResolution(apiRows, PendingRow.id, resolution,
                                 ApiStatusMap(resolution.action))
  /\ UNCHANGED <<resolution, managerRows>>
  /\ UNCHANGED notWriters

\* CheckpointManager._save_checkpoint_resolution on the row of the checkpoint.
ManagerSaveCheckpointResolution ==
  /\ resolution # NoResolution
  /\ managerRows' = UpdateResolution(managerRows, PendingRow.id, resolution,
                                     ManagerStatusMap(resolution.action))
  /\ UNCHANGED <<resolution, apiRows>>
  /\ UNCHANGED notWriters

NextWriters ==
  \/ \E res \in WriterResolutions : Receive(res)
  \/ SaveCheckpointResolution
  \/ ManagerSaveCheckpointResolution

SpecWriters == Init /\ [][NextWriters]_vars

\* ------------------------------------------------------------ validated transitions
\* WorkflowStatusManager on its own: callers invoke mark_running,
\* mark_awaiting_checkpoint, mark_completed and mark_failed with validate
\* True or False; each call is a coroutine whose steps are cut at its awaits.
Targets == {"running", "awaiting_checkpoint", "completed", "failed"}

\* The guard of no mark_* call: nothing is ever rejected.
RejectedNever(validate, cur, to) == FALSE

\* `validate and not self.validate_transition(workflow_id, target_status)`.
Rejected(validate, cur, to) == validate /\ ~validate_transition(cur, to)

\* The notification each call broadcasts after its UPDATE (mark_running none).
NotificationOf(to) ==
  CASE to = "awaiting_checkpoint" -> "checkpoint_ready"
    [] to = "completed" -> "workflow_completed"
    [] to = "failed" -> "workflow_failed"
    [] OTHER -> "none"

\* A mark_* call up to its first await.  mark_failed only warns on a rejected
\* transition and writes the status if the entry is there.  The others raise
\* ValueError on a rejected transition (KeyError when the entry is missing,
\* raised while the message is built or at the in-memory write), else write
\* the in-memory status.
MarkCall(c, to, validate) ==
  /\ calls[c].pc = "idle"
  /\ LET call == [IdleCall EXCEPT !.to = to, !.validate = validate, !.from = entry]
     IN  IF to = "failed"
         THEN /\ entry' = FailedInMemory(entry)
              /\ calls' = [calls EXCEPT ![c] = [call EXCEPT !.pc = "db"]]
         ELSE IF entry = "absent"
         THEN /\ entry' = entry
              /\ calls' = [calls EXCEPT ![c] =
                             [call EXCEPT !.pc = "raised", !.err = "KeyError"]]
         ELSE IF Rejected(validate, entry, to)
         THEN /\ entry' = entry
              /\ calls' = [calls EXCEPT ![c] =
                             [call EXCEPT !.pc = "raised", !.err = "ValueError"]]
         ELSE /\ entry' = to
              /\ calls' = [calls EXCEPT ![c] = [call EXCEPT !.pc = "db"]]
  /\ UNCHANGED <<dbStatus, notified>>
  /\ UNCHANGED notManager

\* UPDATE workflows SET status = target_status; mark_running ends here.
MarkDb(c) ==
  /\ calls[c].pc = "db"
  /\ dbStatus' = calls[c].to
  /\ calls' = [calls EXCEPT ![c].pc = IF calls[c].to = "running" THEN "done"
                                       ELSE "notify"]
  /\ UNCHANGED <<entry, notified>>
  /\ UNCHANGED notManager

\* broadcast_to_workflow, then for a terminal status the entry is deleted.
MarkNotify(c) ==
  /\ calls[c].pc = "notify"
  /\ notified' = Append(notified, NotificationOf(calls[c].to))
  /\ entry' = IF calls[c].to \in {"completed", "failed"} THEN "absent" ELSE entry
  /\ calls' = [calls EXCEPT ![c].pc = "done"]
  /\ UNCHANGED dbStatus
  /\ UNCHANGED notManager

NextManager ==
  \E c \in Callers :
    \/ \E to \in Targets, validate \in BOOLEAN : MarkCall(c, to, validate)
    \/ MarkDb(c)
    \/ MarkNotify(c)

SpecManager == Init /\ [][NextManager]_vars

\* ------------------------------------------------------------ workflow to its end
\* One workflow whose agent calls all succeed and whose user answers each
\* checkpoint, once it is presented, with an action that checkpoint offers.
\* The counters and texts of the graph state play no part in the routing and
\* are not followed, so that revision rounds can go on without end.
Forget(v) ==
  [v EXCEPT !.checkpoint_number = 0, !.iteration_count = 0,
            !.current_plan = IF @ > 0 THEN 1 ELSE 0,
            !.reviewer_prompt = IF @ > 0 THEN 1 ELSE 0,
            !.planner_prompt = IF @ > 0 THEN 1 ELSE 0,
            !.messages = <<"initial_prompt">>]

\* The `actions` each checkpoint creator passes to create_checkpoint.
Offered(node) ==
  CASE node = "plan_checkpoint" -> {"send_to_reviewers", "edit_and_continue", "cancel"}
    [] node = "edit_reviewer_prompt_checkpoint" -> {"send_to_reviewers", "cancel"}
    [] node = "review_checkpoint" ->
         {"request_revision", "edit_prompt_and_revise", "approve_plan", "cancel"}
    [] node = "edit_planner_prompt_checkpoint" ->
         {"send_to_planner_for_revision", "cancel"}
    [] OTHER -> {}

\* The engine follows the outbound edge of the node that returned v.
WalkTo(v) ==
  LET n == NextNode(walk.node, v) IN
  [walk EXCEPT !.node = n, !.vals = Forget(v), !.res = NoResolution,
               !.pc = IF n = "END" THEN "post" ELSE "invoke"]

\* An agent node: every call returns successfully.
WalkAgent ==
  /\ walk.pc = "invoke" /\ walk.node \in {"planning_agent", "review_agents"}
  /\ walk' = IF walk.node = "planning_agent"
             THEN WalkTo(PlannerUpdates(walk.vals))
             ELSE WalkTo(ReviewUpdates(walk.vals, Reviewers))
  /\ UNCHANGED notWalk

\* A checkpoint node: without a resume value interrupt() suspends the graph,
\* with one the node returns the updates of the resolution.
WalkCheckpoint ==
  /\ walk.pc = "invoke" /\ walk.node \in CheckpointNodes
  /\ walk' = IF walk.res = NoResolution
             THEN [walk EXCEPT !.pc = "post", !.pending = TRUE]
             ELSE [WalkTo(CheckpointUpdates(walk.node, walk.vals, walk.res))
                     EXCEPT !.pending = FALSE]
  /\ UNCHANGED notWalk

\* After ainvoke: mark_awaiting_checkpoint when an interrupt is pending,
\* mark_completed otherwise; the in-memory write.
WalkPost ==
  /\ walk.pc = "post"
  /\ walk' = IF walk.pending
             THEN [walk EXCEPT !.entry = "awaiting_checkpoint", !.pc = "awaiting_db"]
             ELSE [walk EXCEPT !.entry = "completed", !.pc = "completed_db"]
  /\ UNCHANGED notWalk

\* The UPDATE workflows SET status of the mark_* call in progress.
WalkDb ==
  /\ walk.pc \in {"awaiting_db", "completed_db", "running_db"}
  /\ walk' = CASE walk.pc = "awaiting_db" ->
                    [walk EXCEPT !.row = "awaiting_checkpoint", !.pc = "awaiting_notify"]
               [] walk.pc = "completed_db" ->
                    [walk EXCEPT !.row = "completed", !.pc = "completed_notify"]
               [] OTHER ->
                    [walk EXCEPT !.row = "running", !.pc = "invoke"]
  /\ UNCHANGED notWalk

\* The broadcast; mark_completed then deletes the active-workflow entry.
WalkNotify ==
  /\ walk.pc \in {"awaiting_notify", "completed_notify"}
  /\ walk' = IF walk.pc = "awaiting_notify"
             THEN [walk EXCEPT !.pc = "waiting"]
             ELSE [walk EXCEPT !.entry = "absent", !.pc = "done"]
  /\ UNCHANGED notWalk

\* The user resolves the checkpoint presented: resume_workflow starts
\* resume_workflow_execution, whose mark_running writes the in-memory status.
WalkResume(a) ==
  /\ walk.pc = "waiting" /\ a \in Offered(walk.node)
  /\ walk' = [walk EXCEPT
       !.res = [action |-> a, edited |-> 0, notes |-> 0],
       !.entry = "running", !.pc = "running_db",
       !.answered = @ \/ a = "cancel"
                      \/ (a = "approve_plan" /\ walk.node = "review_checkpoint")]
  /\ UNCHANGED notWalk

NextWalk ==
  \/ WalkAgent
  \/ WalkCheckpoint
  \/ WalkPost
  \/ WalkDb
  \/ WalkNotify
  \/ \E a \in Actions : WalkResume(a)

\* Every agent call returns, every coroutine is scheduled and every checkpoint
\* presented is resolved.
SpecWalk == Init /\ [][NextWalk]_vars /\ WF_vars(NextWalk)

\* ------------------------------------------------------------ timeout extension
\* The planner node with the planning agent the factory caches: get_agent
\* returns the same object to every call, workflow and iteration.
\* _planning_agent_node up to send_message: with retry_agent and
\* timeout_extension set, the agent's timeout is raised by the extension.
PlannerEnter ==
  /\ retry.pc = "node" /\ retry.attempts < MaxAttempts
  /\ agentTimeout' = IF retry.retry_agent /\ retry.timeout_extension # 0
                     THEN agentTimeout + retry.timeout_extension
                     ELSE agentTimeout
  /\ retry' = [retry EXCEPT !.pc = "calling", !.attempts = @ + 1]
  /\ UNCHANGED notRetry

\* send_message settled: on success the node returns with both retry flags
\* cleared; on a timeout it goes to the timeout checkpoint.
PlannerReturns(ok) ==
  /\ retry.pc = "calling"
  /\ retry' = IF ok
              THEN [retry EXCEPT !.pc = "after", !.retry_agent = FALSE,
                                 !.timeout_extension = 0]
              ELSE [retry EXCEPT !.pc = "timeout_checkpoint"]
  /\ UNCHANGED agentTimeout
  /\ UNCHANGED notRetry

\* The timeout checkpoint resolved: retry_with_extension sets retry_agent and
\* timeout_extension and the planner edge re-enters the node; skip and cancel
\* leave the node behind.
TimeoutResolved(a, k) ==
  /\ retry.pc = "timeout_checkpoint"
  /\ retry' = IF a = "retry_with_extension"
              THEN [retry EXCEPT !.pc = "node", !.retry_agent = TRUE,
                                 !.timeout_extension = k]
              ELSE [retry EXCEPT !.pc = "after", !.retry_agent = FALSE,
                                 !.timeout_extension = 0]
  /\ UNCHANGED agentTimeout
  /\ UNCHANGED notRetry

\* The planner node is entered again: a revision round of this workflow or
\* the first round of the next one, the retry flags unset.
PlannerAgain ==
  /\ retry.pc = "after"
  /\ retry' = [retry EXCEPT !.pc = "node"]
  /\ UNCHANGED agentTimeout
  /\ UNCHANGED notRetry

NextRetry ==
  \/ PlannerEnter
  \/ \E ok \in BOOLEAN : PlannerReturns(ok)
  \/ \E a \in {"retry_with_extension", "skip", "cancel"}, k \in 1..MaxExtension :
       TimeoutResolved(a, k)
  \/ PlannerAgain

SpecRetry == Init /\ [][NextRetry]_vars

\* ------------------------------------------------------------ history labels
\* PromptTemplates.review_with_history on the message lists the workflow hands
\* it: the initial prompt and a plan, then per earlier review round the
\* user's notes, the three reviews, the user's notes and the next plan, and
\* last the notes of the plan checkpoint(s) before the reviewers run.
Notes == { <<"user_note">>, <<"user_note", "user_note">> }

Triple == [k \in Reviewers |-> ReviewAgentName(k)]

RECURSIVE HistoriesWith(_)
HistoriesWith(r) ==
  IF r = 0 THEN { <<"initial_prompt", "planning_agent">> }
  ELSE { h \o a \o Triple \o b \o <<"planning_agent">> :
           h \in HistoriesWith(r - 1), a \in Notes, b \in Notes }

Histories ==
  UNION { { h \o a : h \in HistoriesWith(r), a \in Notes } : r \in 1..MaxReviewRounds }

\* The loop over the messages: the counter of review messages seen so far and
\* the role written over each message.
RECURSIVE RolesFrom(_, _, _, _)
RolesFrom(msgs, i, counter, k) ==
  IF i > Len(msgs) THEN << >>
  ELSE LET m == msgs[i]
           isReview == m \in {ReviewAgentName(j) : j \in Reviewers}
           c == IF isReview THEN counter + 1 ELSE counter
           role == CASE m \in {"initial_prompt", "user_note"} -> "USER"
                     [] m = "planning_agent" -> "PLANNING AGENT"
                     [] isReview ->
                          IF c % 3 = k - 1 THEN "YOU (previous review)"
                          ELSE "OTHER REVIEWER"
                     [] OTHER -> "AGENT"
       IN  <<role>> \o RolesFrom(msgs, i + 1, c, k)

ReviewWithHistory ==
  /\ roles = << >>
  /\ roles' = RolesFrom(history, 1, 0, reviewer)
  /\ UNCHANGED <<history, reviewer>>
  /\ UNCHANGED notLabels

InitLabels ==
  /\ WorkflowInit
  /\ FactoryIdle /\ useMocks = FALSE
  /\ PubSubIdle
  /\ RunnerIdle
  /\ ParserIdle
  /\ WritersIdle
  /\ ManagerIdle
  /\ WalkIdle
  /\ RetryIdle
  /\ ScanIdle
  /\ SalvageIdle
  /\ history \in Histories /\ reviewer \in Reviewers /\ roles = << >>

NextLabels == ReviewWithHistory

SpecLabels == InitLabels /\ [][NextLabels]_vars

\* ------------------------------------------------------------ single-line scan
\* _extract_json_from_output on one line of output, character by character.
\* A character is a brace, a double quote, a backslash, any other printable
\* character ("x") or a whole ANSI colour code such as ESC[32m ("ansi").
Plain == {"{", "}", "quote", "backslash", "x"}

Chars == Plain \cup {"ansi"}

\* json.dumps of a string value: quote and backslash get a backslash, and
\* newline, tab and carriage return become backslash n, t and r.
EscapedChar(c) ==
  CASE c \in {"quote", "backslash"} -> <<"backslash", c>>
    [] c = "newline" -> <<"backslash", "n">>
    [] c = "tab" -> <<"backslash", "t">>
    [] c = "cr" -> <<"backslash", "r">>
    [] OTHER -> <<c>>

RECURSIVE Escaped(_)
Escaped(v) ==
  IF v = << >> THEN << >>
  ELSE EscapedChar(Head(v)) \o Escaped(Tail(v))

\* Canonical texts {"x":"v"} and {"x":{"x":"v"}} for every string value v.
Flat1(v) == <<"{", "quote", "x", "quote", "x", "quote">> \o Escaped(v)
              \o <<"quote", "}">>

Nested1(v) == <<"{", "quote", "x", "quote", "x">> \o Flat1(v) \o <<"}">>

CanonicalTexts ==
  UNION { {Flat1(v), Nested1(v)} : v \in SeqsUpTo(Plain, MaxValueLen) }

\* ansi_escape.sub('', output): the colour codes go.
StripAnsi(t) == SelectSeq(t, LAMBDA c : c # "ansi")

\* The state machine over the characters: escape_next, in_string, brace_count
\* and json_start (0 for -1); last is the last candidate, << >> for none.
RECURSIVE ScanChars(_, _, _, _, _, _, _)
ScanChars(t, i, brace_count, json_start, in_string, escape_next, last) ==
  IF i > Len(t) THEN last
  ELSE IF escape_next
    THEN ScanChars(t, i + 1, brace_count, json_start, in_string, FALSE, last)
  ELSE IF t[i] = "backslash" /\ in_string
    THEN ScanChars(t, i + 1, brace_count, json_start, in_string, TRUE, last)
  ELSE IF t[i] = "quote"
    THEN ScanChars(t, i + 1, brace_count, json_start, ~in_string, FALSE, last)
  ELSE IF ~in_string /\ t[i] = "{"
    THEN ScanChars(t, i + 1, brace_count + 1,
                   IF brace_count = 0 THEN i ELSE json_start,
                   in_string, FALSE, last)
  ELSE IF ~in_string /\ t[i] = "}"
    THEN IF brace_count - 1 = 0 /\ json_start # 0
         THEN ScanChars(t, i + 1, 0, 0, in_string, FALSE, SubSeq(t, json_start, i))
         ELSE ScanChars(t, i + 1, brace_count - 1, json_start, in_string, FALSE, last)
  ELSE ScanChars(t, i + 1, brace_count, json_start, in_string, FALSE, last)

\* _extract_json_from_output for a single line: strip the ANSI codes, scan,
\* return the last candidate or else the cleaned text.
ExtractSingleLine ==
  /\ json_found = NotScanned
  /\ text # << >>
  /\ LET cleaned == StripAnsi(text)
         last == ScanChars(cleaned, 1, 0, 0, FALSE, FALSE, << >>)
     IN  json_found' = IF last # << >> THEN last ELSE cleaned
  /\ UNCHANGED <<text, canon>>
  /\ UNCHANGED notScan

\* The outputs: every short line, and every canonical object text bare or
\* wrapped in colour codes.
InitScan ==
  /\ WorkflowInit
  /\ FactoryIdle /\ useMocks = FALSE
  /\ PubSubIdle
  /\ RunnerIdle
  /\ ParserIdle
  /\ WritersIdle
  /\ ManagerIdle
  /\ WalkIdle
  /\ RetryIdle
  /\ LabelsIdle
  /\ SalvageIdle
  /\ json_found = NotScanned
  /\ \/ /\ text \in SeqsUpTo(Chars, MaxChars) \ {<< >>}
        /\ canon = << >>
     \/ /\ canon \in CanonicalTexts
        /\ text \in {canon, <<"ansi">> \o canon \o <<"ansi">>}

NextScan == ExtractSingleLine

SpecScan == InitScan /\ [][NextScan]_vars

\* ------------------------------------------------------------ truncation salvage
\* _fallback_extract_content on the record {"<field>":"<escaped text> that
\* ends where the escaped text ends. "x" is any character without a role;
\* "n", "t" and "r" are those letters.
ValueChars == {"x", "n", "t", "r", "newline", "tab", "cr", "quote", "backslash"}

field_names == <<"result", "content", "message">>

Fields == {"result", "content", "message", "text"}

NoMatch == <<"no match">>

None == <<"None">>

\* Group 1 of the pattern from position i of the text after the opening quote:
\* ((?:[^"\\]|\\.)*?) taken lazily up to an unescaped quote followed by
\* white space, comma or closing brace, or up to the end of the text.
RECURSIVE Captured(_, _)
Captured(t, i) ==
  IF i > Len(t) THEN t
  ELSE IF t[i] = "quote"
    THEN IF /\ i < Len(t) /\ t[i + 1] \in {"newline", "tab", "cr", "}"}
            /\ (i = 1 \/ t[i - 1] # "backslash")
         THEN SubSeq(t, 1, i - 1)
         ELSE NoMatch
  ELSE IF t[i] = "backslash"
    THEN IF i < Len(t) THEN Captured(t, i + 2) ELSE NoMatch
  ELSE Captured(t, i + 1)

\* str.replace of the two characters a b by c, left to right.
RECURSIVE Replace(_, _, _, _)
Replace(t, a, b, c) ==
  IF Len(t) < 2 THEN t
  ELSE IF t[1] = a /\ t[2] = b
    THEN <<c>> \o Replace(SubSeq(t, 3, Len(t)), a, b, c)
  ELSE <<t[1]>> \o Replace(Tail(t), a, b, c)

\* The five replacements in the order of the code.
Unescape(content) ==
  LET c1 == Replace(content, "backslash", "n", "newline")
      c2 == Replace(c1, "backslash", "t", "tab")
      c3 == Replace(c2, "backslash", "r", "cr")
      c4 == Replace(c3, "backslash", "quote", "quote")
  IN  Replace(c4, "backslash", "backslash", "backslash")

\* The first field name of field_names the record has decides; the record
\* has one field.
FallbackExtractContent ==
  /\ salvaged = NotSalvaged
  /\ field # "none"
  /\ LET malformed == Escaped(value)
     IN  salvaged' =
           IF /\ \E k \in 1..Len(field_names) : field_names[k] = field
              /\ Captured(malformed, 1) # NoMatch
           THEN Unescape(Captured(malformed, 1))
           ELSE None
  /\ UNCHANGED <<field, value>>
  /\ UNCHANGED notSalvage

InitSalvage ==
  /\ WorkflowInit
  /\ FactoryIdle /\ useMocks = FALSE
  /\ PubSubIdle
  /\ RunnerIdle
  /\ ParserIdle
  /\ WritersIdle
  /\ ManagerIdle
  /\ WalkIdle
  /\ RetryIdle
  /\ LabelsIdle
  /\ ScanIdle
  /\ field \in Fields
  /\ value \in SeqsUpTo(ValueChars, MaxSalvageLen)
  /\ salvaged = NotSalvaged

NextSalvage == FallbackExtractContent

SpecSalvage == InitSalvage /\ [][NextSalvage]_vars

\* ------------------------------------------------------------ properties

\* C1: every successive status written for the workflow, in the in-memory
\* table and in the workflows row, moves from the previous status along an
\* allowed transition, a move to failed being allowed from any status.
AllowedMove(from, to) == <<from, to>> \in ValidTransitions \/ to = "failed"

C1_StatusWalk ==
  [][ /\ (wfRow # "none" /\ wfRow' # wfRow) => AllowedMove(wfRow, wfRow')
      /\ (active # "absent" /\ active' # "absent" /\ active' # active)
           => AllowedMove(active, active') ]_vars

\* C2: within the workflow at most one graph execution (the initial run or a
\* resume) is executing nodes at any time.
Executing(t) == tasks[t].pc \in {"run", "wait"}

C2_OneExecution == Cardinality({t \in Slots : Executing(t)}) <= 1

\* C3: when a checkpoint was resolved with cancel (its row is rejected) and the
\* workflow has ended without an agent failure or a restart, the recorded
\* status is cancelled.
CancelResolved == \E i \in DOMAIN checkpoints : checkpoints[i].status = "rejected"

C3_CancelEndsCancelled ==
  (CancelResolved /\ Quiescent /\ active = "absent" /\ faults = 0 /\ ~restarted)
    => wfRow = "cancelled"

\* C4: after a checkpoint node returned the cancel updates (status cancelled,
\* next_step end) the execution invokes no planner and no reviewer: no
\* execution waits on an agent call with a cancelled state.
C4_NoAgentAfterCancel ==
  \A t \in Slots : tasks[t].pc = "wait" => tasks[t].vals.status # "cancelled"

\* C5: after a restart with the graph suspended at plan_checkpoint, get
\* surfaces the pending checkpoint and a resume request is accepted.
C5_RestartKeepsCheckpoint ==
  (restarted /\ graph.intr.step = "plan_ready_for_review")
    => (PendingCheckpoint = graph.intr.id /\ ResumeAccepted)

\* C6: when the calls a node waits for have settled with a timeout and no
\* other error, the node suspends at a timeout checkpoint and the workflow is
\* not marked failed.
TimedOutJoin(t) ==
  /\ tasks[t].pc = "wait"
  /\ \A e \in tasks[t].calls :
       executions[e].returned /\ executions[e].output \in {"result", DeadlineMessage}
  /\ \E e \in tasks[t].calls : executions[e].output = DeadlineMessage

C6_TimeoutSuspends ==
  [][ \A t \in Slots :
        (TimedOutJoin(t) /\ tasks'[t].pc # "wait" /\ ~restarted')
          => /\ tasks'[t].pc = "post"
             /\ graph'.intr.step = "timeout"
             /\ active' # "failed" ]_vars

\* C7: each checkpoint suspension has exactly one row in user_checkpoints.
RowsOf(id) == {i \in DOMAIN checkpoints : checkpoints[i].susp = id}

C7_OneRowPerSuspension ==
  \A k \in DOMAIN emitted : Cardinality(RowsOf(emitted[k].id)) = 1

\* C8: a row of user_checkpoints that has left pending is never written again:
\* a further resume for the same checkpoint changes neither its status nor its
\* edited content nor its notes.
C8_ResolvedOnce ==
  [][ \A i \in DOMAIN checkpoints :
        checkpoints[i].status # "pending" => checkpoints'[i] = checkpoints[i] ]_vars

\* C9: every planner or reviewer invocation has exactly one agent_executions
\* row, and once the tracked call has returned or raised the row is completed
\* with the result or failed with the failure reason; it is in running only
\* while the call is in progress.
C9_ExecutionsClosed ==
  /\ \A e \in DOMAIN executions :
       IF executions[e].returned
       THEN \/ executions[e].status = "completed" /\ executions[e].output = "result"
            \/ executions[e].status = "failed"
                 /\ executions[e].output \in FailureMessages
       ELSE executions[e].status = "running"
  /\ \A t \in Slots :
       /\ tasks[t].calls \subseteq DOMAIN executions
       /\ tasks[t].pc = "wait" /\ tasks[t].node = "planning_agent"
            => \E e \in DOMAIN executions :
                 tasks[t].calls = {e} /\ executions[e].type = "planning"
       /\ tasks[t].pc = "wait" /\ tasks[t].node = "review_agents"
            => /\ Cardinality(tasks[t].calls) = NumReviewers
               /\ {executions[e].agent : e \in tasks[t].calls} = Reviewers
               /\ \A e \in tasks[t].calls : executions[e].type = "review"
       /\ \A u \in Slots \ {t} : tasks[t].calls \cap tasks[u].calls = {}

\* C9 witness: a reviewer call has raised on its deadline and its row is
\* closed as failed, next to a sibling that completed.
C9_Witness ==
  \E e, f \in DOMAIN executions :
     /\ executions[e].type = "review" /\ executions[e].returned
     /\ executions[e].status = "failed" /\ executions[e].output = "timed out"
     /\ executions[f].type = "review" /\ executions[f].status = "completed"

\* C10: the checkpoint_number of each emitted checkpoint is strictly greater
\* than that of the checkpoint emitted before it.
C10_NumbersIncrease ==
  \A k \in DOMAIN emitted :
     k > 1 => emitted[k].number > emitted[k - 1].number

\* The rows of agent_executions of one type, in insertion order.
ExecutionsOf(type) ==
  SelectSeq(executions, LAMBDA r : r.type = type)

EmittedSteps == [k \in DOMAIN emitted |-> emitted[k].step]

\* C11: a workflow approved after exactly one request_revision round ends
\* completed with iteration_count = 1, the planner having re-run with the
\* history-aware prompt.
RevisionLog ==
  <<"send_to_reviewers", "request_revision", "send_to_reviewers", "approve_plan">>

C11_RevisionCounts ==
  (log = RevisionLog /\ Quiescent /\ faults = 0)
    => /\ wfRow = "completed"
       /\ graph.vals.iteration_count = 1
       /\ Len(ExecutionsOf("planning")) = 2
       /\ ExecutionsOf("planning")[2].prompt.kind = "history"

\* C16: with all agents succeeding, send_to_reviewers at the plan checkpoint
\* and approve_plan at the review checkpoint end the workflow completed with
\* iteration_count 0 after exactly two suspensions, one planner invocation and
\* one invocation of each reviewer.
HappyLog == <<"send_to_reviewers", "approve_plan">>

C16_HappyPath ==
  (log = HappyLog /\ Quiescent /\ faults = 0)
    => /\ wfRow = "completed" /\ active = "absent"
       /\ graph.next = "END"
       /\ graph.vals.status = "completed"
       /\ graph.vals.iteration_count = 0
       /\ EmittedSteps = <<"plan_ready_for_review", "reviews_ready_for_consolidation">>
       /\ Len(ExecutionsOf("planning")) = 1
       /\ Len(ExecutionsOf("review")) = NumReviewers
       /\ \A r \in Reviewers :
            Cardinality({e \in DOMAIN executions :
                          executions[e].type = "review" /\ executions[e].agent = r}) = 1
       /\ \A e \in DOMAIN executions : executions[e].status = "completed"

\* C16 witness: the happy path has run to its end.
C16_Witness ==
  /\ log = HappyLog /\ Quiescent /\ faults = 0
  /\ wfRow = "completed" /\ Len(executions) = 1 + NumReviewers

\* C13: when a node's agent call failed for another reason than the deadline,
\* the node raises that CLIAgentError (the error the workflow_failed
\* notification then carries) and the workflow is on its way to failed; the
\* failure is not taken into the timeout handling.
FailedOtherwise(t) ==
  /\ tasks[t].pc = "wait"
  /\ \E e \in tasks[t].calls :
       /\ executions[e].returned /\ executions[e].status = "failed"
       /\ executions[e].output # DeadlineMessage

C13_FailureIsFatal ==
  [][ \A t \in Slots :
        (FailedOtherwise(t) /\ tasks'[t].pc # "wait" /\ ~restarted')
          => /\ tasks'[t].pc = "failed_db"
             /\ tasks'[t].err = "CLIAgentError" ]_vars

\* A get_agent call that started and returned between the same two stop_all.
Returned(c) == gets[c].pc = "done" /\ gets[c].from = gets[c].till

\* C12: the agent a workflow is handed runs in the workspace that workflow
\* asked for and with the timeout of the role it asked for, whatever other
\* workflows asked for before.
C12_OwnWorkspace ==
  \A c \in GetCalls :
     gets[c].pc = "done"
       => /\ instances[gets[c].inst].workspace = gets[c].ws
          /\ instances[gets[c].inst].timeout = TimeoutForRole(gets[c].role)

\* C19: between two stop_all calls, two get_agent calls return the same
\* instance exactly when they name the same (role, name).
C19_SameInstance ==
  \A c, d \in GetCalls :
     (Returned(c) /\ Returned(d) /\ gets[c].from = gets[d].from)
       => ( (gets[c].role = gets[d].role /\ gets[c].name = gets[d].name)
              <=> gets[c].inst = gets[d].inst )

\* C14: a publish never fails: no error comes out of broadcast_to_workflow,
\* the subscribers found dead are dropped from the list, and every subscriber
\* that was connected when the publish began and is still connected and
\* healthy has received the message.
C14_PublishNeverFails ==
  /\ pub.result \in {"none", "ok"}
  /\ pub.pc = "done"
       => /\ \A c \in pub.at :
               (subs[c] = "open" /\ c \notin broken) => c \in pub.got
          /\ \A j \in DOMAIN pub.dead : ~Has(conns.list, pub.dead[j])

\* C15: a resume request for a workflow that has no active-workflow entry
\* (unknown, or removed on completed / failed) changes no status, no graph
\* state, no row and starts no task.
C15_RejectedResumeChangesNothing ==
  [][ (resumes' = resumes + 1 /\ active = "absent")
        => UNCHANGED <<active, wfRow, graph, checkpoints, executions, tasks,
                       emitted>> ]_vars

\* C15 witness: a resume request for a workflow that was never created has
\* been answered.
C15_Witness ==
  /\ resumes > 0 /\ wfRow = "none" /\ active = "absent"
  /\ \A t \in Slots : tasks[t] = Idle

Finished(c) == runs[c].pc \in {"returned", "raised"}

\* C17: once a send_message call has returned or raised, also on timeout and
\* on cancellation, the subprocess it spawned is no longer alive.
C17_NoProcessOutlives ==
  \A c \in RunCalls : Finished(c) => runs[c].proc \notin procs

InProgress(c) == runs[c].pc \in {"spawn", "wait", "reaping"}

\* C18: once a send_message call has returned or raised, on every exit path,
\* its temp file is gone; and two calls in progress never hold the same file.
C18_TempFileDeleted ==
  /\ \A c \in RunCalls : Finished(c) => \A f \in FileNames : files[f] # c
  /\ \A c \in RunCalls :
       InProgress(c)
         => /\ files[runs[c].file] = c
            /\ \A d \in RunCalls \ {c} :
                 InProgress(d) => runs[d].file # runs[c].file

\* C18 witness: one call has failed on its deadline and another has returned
\* a response, both after creating their temp file.
C18_Witness ==
  \E c, d \in RunCalls :
     /\ runs[c].out = "timed out" /\ runs[c].file # 0
     /\ runs[d].out = "ok" /\ runs[d].file # 0

\* The numbers of the lines of stdout that are one JSON object of a type in T.
ObjectLines(T) ==
  {i \in 1..Len(stdout) : Len(stdout[i]) = 1 /\ stdout[i][1] \in T}

Largest(S) == CHOOSE i \in S : \A j \in S : j <= i

MultiLine == Len(StripText(Numbered(stdout))) > 1

\* C20: for output of more than one line the parser returns the last line that
\* is a JSON object of type result or assistant; only when there is none it
\* returns the last line that is a JSON object of any type.
C20_LastResultSelected ==
  (extracted # NotExtracted /\ MultiLine) =>
     IF ObjectLines({"result", "assistant"}) # {}
       THEN /\ extracted.kind = "object"
            /\ extracted.line = Largest(ObjectLines({"result", "assistant"}))
            /\ extracted.type \in {"result", "assistant"}
     ELSE ObjectLines(RecordTypes) # {}
            => /\ extracted.kind = "object"
               /\ extracted.line = Largest(ObjectLines(RecordTypes))

\* C20 witness: a result line, then an assistant line, then a system line; the
\* assistant line was returned.
C20_Witness ==
  /\ stdout = << <<"result">>, <<"assistant">>, <<"system">> >>
  /\ extracted = [kind |-> "object", line |-> 2, type |-> "assistant"]

\* Every line of stdout that is not blank is one JSON object of type system,
\* and there is such a line.
OnlySystemRecords ==
  /\ ObjectLines({"system"}) # {}
  /\ \A i \in 1..Len(stdout) : stdout[i] = << >> \/ i \in ObjectLines({"system"})

\* C21: when stdout holds only system records, parse_response of every JSON
\* agent class fails; it never returns the content of a system record.
C21_SystemOnlyFails ==
  (response # NoResponse /\ OnlySystemRecords) => response.kind = "error"

\* C22: after save_checkpoint_created has run for an id that already had a
\* row, there is exactly one row with that id, and a row it met resolved is
\* not pending again.
C22_RecordedOnce ==
  \A p \in polls :
     /\ Cardinality({i \in DOMAIN checkpoints : checkpoints[i].id = p.id}) = 1
     /\ p.had \notin {"none", "pending"} => RowStatus(p.id) # "pending"

\* C22 witness: the creation of a checkpoint was recorded again after its
\* row had been resolved.
C22_Witness ==
  \E q \in polls : q.had \in {"approved", "edited", "rejected"}

\* C23: while a reviewer call of a round is still running, the reviewers node
\* that started it is still waiting in asyncio.gather: the node neither
\* returns nor raises before all three calls have settled.
C23_CollectsAfterAllSettle ==
  ~restarted =>
     \A e \in DOMAIN executions :
        (executions[e].type = "review" /\ ~executions[e].returned)
          => \E t \in Slots : tasks[t].pc = "wait" /\ e \in tasks[t].calls

\* A reviewer call of some round ended on its deadline.
ReviewerDeadline ==
  \E e \in DOMAIN executions :
     executions[e].type = "review" /\ executions[e].output = DeadlineMessage

InStatusCall(t) ==
  tasks[t].pc \in { "running_db", "awaiting_db", "awaiting_notify",
                    "completed_db", "completed_notify", "failed_db",
                    "failed_notify" }

\* C25: while the workflow is in active_workflows and no mark_* call is in
\* progress for it, its in-memory status is the status of its workflows row.
C25_MemoryMatchesRow ==
  (active # "absent" /\ \A t \in Slots : ~InStatusCall(t)) => active = wfRow

\* The status the action-to-status mapping assigns to an action.
MappedStatus(a) ==
  IF a \in {"edit_and_continue", "edit_prompt_and_revise", "edit_full_prompt"}
    THEN "edited"
  ELSE IF a = "cancel" THEN "rejected"
  ELSE "approved"

\* C26: a row resolved by the resume API and a row resolved by the checkpoint
\* manager carry, for every action, the status of the fixed mapping.
C26_WritersAgree ==
  /\ apiRows[1].status # "pending"
       => apiRows[1].status = MappedStatus(resolution.action)
  /\ managerRows[1].status # "pending"
       => managerRows[1].status = MappedStatus(resolution.action)

\* The node the routing table names for an action at a checkpoint, "any" for
\* an action the table does not list there.
RoutedTo(node, a) ==
  CASE node = "plan_checkpoint" /\ a = "send_to_reviewers" -> "review_agents"
    [] node = "plan_checkpoint" /\ a = "edit_and_continue" -> "edit_reviewer_prompt_checkpoint"
    [] node = "plan_checkpoint" /\ a = "cancel" -> "END"
    [] node = "review_checkpoint" /\ a = "request_revision" -> "planning_agent"
    [] node = "review_checkpoint" /\ a = "edit_prompt_and_revise" -> "edit_planner_prompt_checkpoint"
    [] node = "review_checkpoint" /\ a = "approve_plan" -> "END"
    [] node = "review_checkpoint" /\ a = "cancel" -> "END"
    [] OTHER -> "any"

\* The checkpoint node of task t is about to take the resolution it was resumed with.
Resolving(t) ==
  /\ tasks[t].pc = "run" /\ tasks[t].resume
  /\ tasks[t].node \in {"plan_checkpoint", "review_checkpoint"}

\* C27: when plan_checkpoint or review_checkpoint takes its resolution, the
\* node that runs next is the one the routing table names for the action, and
\* send_to_reviewers stores the edited content as user_edits.
C27_RoutedByAction ==
  [][ \A t \in Slots :
        (Resolving(t) /\ tasks'[t] # tasks[t]
           /\ RoutedTo(tasks[t].node, tasks[t].res.action) # "any")
          => /\ graph'.next = RoutedTo(tasks[t].node, tasks[t].res.action)
             /\ tasks[t].res.action = "send_to_reviewers"
                  => graph'.vals.user_edits = (IF tasks[t].res.edited = 1 THEN 2 ELSE 1)
    ]_vars

\* C27 witness: the review checkpoint was resolved with request_revision after
\* the plan checkpoint was resolved with send_to_reviewers and an edited
\* plan, and the planner is the next node.
C27_Witness ==
  /\ log = <<"send_to_reviewers", "request_revision">>
  /\ graph.next = "planning_agent"
  /\ graph.vals.status = "revision_needed"
  /\ graph.vals.user_edits = 2

\* The checkpoint node of task t, whichever it is, is about to take the
\* resolution it was resumed with.
TakingResolution(t) ==
  /\ tasks[t].pc = "run" /\ tasks[t].resume
  /\ tasks[t].node \in CheckpointNodes

\* C28: for every resolution action, offered at the checkpoint or not, the
\* row the resolution is recorded on is marked rejected exactly when the
\* resolution routes the workflow to the end as cancelled.
C28_RejectedIffCancelled ==
  [][ \A t \in Slots :
        (TakingResolution(t) /\ tasks'[t] # tasks[t])
          => (checkpoints'[Len(checkpoints')].status = "rejected"
                <=> (graph'.next = "END" /\ graph'.vals.status = "cancelled"))
    ]_vars

\* C29: in every round the prompt of a review run carries the plan under
\* review in that round, and a custom reviewer or planner prompt taken at an
\* edit-prompt checkpoint is used only by the agent run that follows that
\* checkpoint: every execution row is created with a prompt written for the
\* plan the state holds at that moment.
C29_PromptOfTheRound ==
  [][ \A e \in DOMAIN executions' :
        e \notin DOMAIN executions
          => executions'[e].prompt.plan = graph.vals.current_plan
    ]_vars

\* C30: whenever the planner builds its prompt from the initial-planning
\* template, the requirements the prompt embeds are the workflow's initial
\* user prompt, whatever has been appended to the messages since.
C30_RequirementsAreInitialPrompt ==
  [][ \A e \in DOMAIN executions' :
        (e \notin DOMAIN executions /\ executions'[e].type = "planning"
           /\ executions'[e].prompt.kind = "initial")
          => executions'[e].prompt.requirements = "initial_prompt"
    ]_vars

C32_CompletedStays ==
  [][ (wfRow = "completed" /\ \E t \in Slots \ {0} : tasks'[t] # tasks[t])
        => wfRow' = "completed" ]_vars

\* C33: when every agent call returns successfully and every checkpoint is
\* resolved, a workflow whose user has answered cancel at a checkpoint, or
\* approve_plan at a review checkpoint, eventually has a terminal status and
\* no entry in the active-workflow table.
C33_AnsweredEnds ==
  walk.answered ~>
    (walk.entry = "absent" /\ walk.row \in {"completed", "failed", "cancelled"})

\* C33 witness: the user cancelled at the edit-reviewer-prompt checkpoint and
\* the workflow is completed in the database and gone from the table.
C33_Witness ==
  /\ walk.answered /\ walk.pc = "done"
  /\ walk.entry = "absent" /\ walk.row = "completed"
  /\ walk.vals.status = "cancelled" /\ walk.vals.review_feedback # {}

\* C34: a timeout extension applies only to the retry it was granted for:
\* once a planner call has finished, the planning agent's timeout is the
\* configured planning timeout again.
C34_ExtensionOnlyForRetry ==
  retry.pc = "after" => agentTimeout = 0

\* The status whose notification a task at this position broadcasts next.
StatusNotified(pc) ==
  CASE pc = "awaiting_notify" -> "awaiting_checkpoint"
    [] pc = "completed_notify" -> "completed"
    [] pc = "failed_notify" -> "failed"
    [] OTHER -> "none"

\* C35: whenever checkpoint_ready, workflow_completed or workflow_failed is
\* broadcast, the in-memory status and the workflows row both hold
\* awaiting_checkpoint, completed or failed respectively.
C35_NotifiedAfterBothWrites ==
  [][ \A t \in Slots :
        (StatusNotified(tasks[t].pc) # "none" /\ tasks'[t].pc = "idle"
           /\ restarted' = restarted)
          => /\ active = StatusNotified(tasks[t].pc)
             /\ wfRow = StatusNotified(tasks[t].pc)
    ]_vars

IsPrefix(p, q) == Len(p) <= Len(q) /\ SubSeq(q, 1, Len(p)) = p

\* C37: the message history is append-only: the messages of every persisted
\* state are a prefix of the messages of the state persisted next, and so of
\* every later one.
C37_MessagesAppendOnly ==
  [][ IsPrefix(graph.vals.messages, graph'.vals.messages) ]_vars

\* C38: in the history-aware prompt built for reviewer k, a previous review
\* is labelled "YOU (previous review)" exactly when reviewer slot k produced
\* it, and "OTHER REVIEWER" otherwise.
C38_OwnReviewsLabelled ==
  roles # << >> =>
    \A i \in DOMAIN history :
      history[i] \in {ReviewAgentName(j) : j \in Reviewers}
        => roles[i] = IF history[i] = ReviewAgentName(reviewer)
                      THEN "YOU (previous review)" ELSE "OTHER REVIEWER"

\* The positions of t outside string literals, a literal running from a double
\* quote to the next double quote that no backslash inside it escapes.
RECURSIVE OutsideStrings(_, _, _, _)
OutsideStrings(t, i, inside, escaped) ==
  IF i > Len(t) THEN {}
  ELSE IF escaped THEN OutsideStrings(t, i + 1, inside, FALSE)
  ELSE IF t[i] = "backslash" /\ inside THEN OutsideStrings(t, i + 1, inside, TRUE)
  ELSE IF t[i] = "quote" THEN OutsideStrings(t, i + 1, ~inside, FALSE)
  ELSE (IF inside THEN {} ELSE {i}) \cup OutsideStrings(t, i + 1, inside, FALSE)

BraceDepth(t, i, k) ==
  LET out == OutsideStrings(t, 1, FALSE, FALSE)
  IN  Cardinality({p \in out : i <= p /\ p <= k /\ t[p] = "{"})
      - Cardinality({p \in out : i <= p /\ p <= k /\ t[p] = "}"})

\* t[i..j] is brace-balanced: the brace at j closes the one at i.
BraceBalanced(t, i, j) ==
  /\ i < j
  /\ {i, j} \subseteq OutsideStrings(t, 1, FALSE, FALSE)
  /\ t[i] = "{" /\ t[j] = "}"
  /\ BraceDepth(t, i, j) = 0
  /\ \A k \in i..(j - 1) : BraceDepth(t, i, k) > 0

BalancedObjects(t) ==
  {p \in (1..Len(t)) \X (1..Len(t)) : BraceBalanced(t, p[1], p[2])}

\* Those at the top level: every brace opened before one of them was closed
\* before it.
TopLevelObjects(t) ==
  {p \in BalancedObjects(t) :
     \A k \in 1..(p[1] - 1) :
        (k \in OutsideStrings(t, 1, FALSE, FALSE) /\ t[k] = "{")
          => \E j \in (k + 1)..(p[1] - 1) : BraceBalanced(t, k, j)}

LastTopLevelObject(t) ==
  IF TopLevelObjects(t) = {} THEN t
  ELSE LET p == CHOOSE p \in TopLevelObjects(t) :
                  \A q \in TopLevelObjects(t) : q[2] <= p[2]
       IN  SubSeq(t, p[1], p[2])

\* C39: the single-line extractor returns the last top-level brace-balanced
\* object of the cleaned text, braces counted outside string literals and
\* backslash escapes honoured (the cleaned text itself when there is none);
\* for a canonical object text, bare or wrapped in colour codes, it returns
\* exactly that text.
C39_LastTopLevelObject ==
  json_found # NotScanned =>
    /\ json_found = LastTopLevelObject(StripAnsi(text))
    /\ canon # << >> => json_found = canon

\* The canonical part alone.
CanonicalReturned ==
  (json_found # NotScanned /\ canon # << >>) => json_found = canon

CanonicalWitness ==
  /\ json_found = Nested1(<<"}", "quote">>)
  /\ text = <<"ansi">> \o canon \o <<"ansi">>
\* C40: for an unterminated record {"result":"<JSON-escaped s> the salvage
\* returns exactly s, for every s of ordinary characters, newline, tab,
\* carriage return, double quote and backslash.
C40_SalvageReturnsValue ==
  (salvaged # NotSalvaged /\ field = "result") => salvaged = value
====
